---------------------------- MODULE Spec2Model ----------------------------
(***************************************************************************)
(* A model of the document comparison engine of 2m24/Com.                  *)
(*                                                                         *)
(* Two variants of the engine live in the repository:                      *)
(*   - src/unnamed/part_000: the staged, synchronous compareHtmlDocuments  *)
(*     (block stage, image stage, table stage, word-level stage, report);  *)
(*   - src/src/utils/textComparison.js: the deferred, position-indexed     *)
(*     compareHtmlDocuments (performMutualElementComparison).              *)
(* Both export compareDocuments, a character diff of two plain strings.    *)
(*                                                                         *)
(* Texts are sequences of characters.  The libraries diff (diffChars) and  *)
(* diff-match-patch (diff_main) are not part of the repository; they are   *)
(* modelled by their contract, a minimal character edit script, with one   *)
(* fixed choice among the minimal scripts.                                 *)
(***************************************************************************)
EXTENDS Integers, Sequences, FiniteSets, TLC

(***************************************************************************)
(* Bounds of the model.                                                    *)
(***************************************************************************)
\* longest plain string handed to compareDocuments / getTextSimilarity
MaxLen == 3
\* longest block list / document (in blocks) on either side
MaxBlocks == 2

(***************************************************************************)
(* Characters and strings.                                                 *)
(***************************************************************************)
\* a lower-case letter, its upper-case form, and a whitespace character
Chars == {"a", "A", " "}

RECURSIVE StringsOfLen(_)
StringsOfLen(n) ==
  IF n = 0 THEN {<<>>}
  ELSE {<<c>> \o s : c \in Chars, s \in StringsOfLen(n - 1)}

Strings == UNION {StringsOfLen(n) : n \in 0..MaxLen}

Max(x, y) == IF x >= y THEN x ELSE y
Min(x, y) == IF x <= y THEN x ELSE y

RECURSIVE Concat(_)
\* Array.prototype.join("") over a sequence of strings
Concat(ss) == IF ss = <<>> THEN <<>> ELSE Head(ss) \o Concat(Tail(ss))

\* String.prototype.toLowerCase, per character
LowerChar(c) == IF c = "A" THEN "a" ELSE c
toLowerCase(s) == [i \in 1..Len(s) |-> LowerChar(s[i])]

IsSpace(c) == c \in {" ", "\t", "\n"}

RECURSIVE TrimStart(_)
TrimStart(s) ==
  IF s # <<>> /\ IsSpace(Head(s)) THEN TrimStart(Tail(s)) ELSE s

RECURSIVE TrimEnd(_)
TrimEnd(s) ==
  IF s # <<>> /\ IsSpace(s[Len(s)]) THEN TrimEnd(SubSeq(s, 1, Len(s) - 1))
  ELSE s

\* String.prototype.trim
trim(s) == TrimEnd(TrimStart(s))

RECURSIVE CollapseSpaces(_)
\* text.replace(/\s+/g, ' '): every run of whitespace becomes one space
CollapseSpaces(s) ==
  IF s = <<>> THEN <<>>
  ELSE IF IsSpace(Head(s))
       THEN <<" ">> \o CollapseSpaces(TrimStart(s))
       ELSE <<Head(s)>> \o CollapseSpaces(Tail(s))

\* areTextsEqual's normalize: trim, collapse whitespace runs, lower-case
normalize(text) == toLowerCase(CollapseSpaces(trim(text)))

areTextsEqual(text1, text2) == normalize(text1) = normalize(text2)

(***************************************************************************)
(* The character diff (library contract: a minimal edit script).           *)
(***************************************************************************)
RECURSIVE LcsLen(_, _)
\* length of a longest common subsequence
LcsLen(a, b) ==
  IF a = <<>> \/ b = <<>> THEN 0
  ELSE IF Head(a) = Head(b) THEN 1 + LcsLen(Tail(a), Tail(b))
  ELSE Max(LcsLen(Tail(a), b), LcsLen(a, Tail(b)))

RECURSIVE EditScript(_, _)
\* one minimal edit script, a sequence of <<op, char>>, op in {-1, 0, 1}
\* (-1 delete from the left text, 1 insert from the right text, 0 equal)
EditScript(a, b) ==
  IF a = <<>> THEN [i \in 1..Len(b) |-> <<1, b[i]>>]
  ELSE IF b = <<>> THEN [i \in 1..Len(a) |-> <<-1, a[i]>>]
  ELSE IF Head(a) = Head(b)
       THEN <<<<0, Head(a)>>>> \o EditScript(Tail(a), Tail(b))
  ELSE IF LcsLen(Tail(a), b) >= LcsLen(a, Tail(b))
       THEN <<<<-1, Head(a)>>>> \o EditScript(Tail(a), b)
       ELSE <<<<1, Head(b)>>>> \o EditScript(a, Tail(b))

\* the characters of the ops of script s whose op is o, in order
CharsOf(s, o) ==
  LET idx == {i \in 1..Len(s) : s[i][1] = o}
      RECURSIVE Pick(_)
      Pick(i) == IF i > Len(s) THEN <<>>
                 ELSE IF i \in idx THEN <<s[i][2]>> \o Pick(i + 1)
                 ELSE Pick(i + 1)
  IN Pick(1)

RECURSIVE Spans(_)
\* the script grouped into spans <<op, text>>: a run of equal characters is
\* one equal span; a run of edits is one delete span followed by one insert
\* span (either may be absent), as both libraries report it
Spans(s) ==
  IF s = <<>> THEN <<>>
  ELSE
    LET isEq == s[1][1] = 0
        \* length of the leading run of equal ops / of edit ops
        RECURSIVE RunLen(_)
        RunLen(i) == IF i <= Len(s) /\ ((s[i][1] = 0) = isEq)
                     THEN RunLen(i + 1) ELSE i - 1
        n == RunLen(1)
        run == SubSeq(s, 1, n)
        rest == SubSeq(s, n + 1, Len(s))
        dels == CharsOf(run, -1)
        inss == CharsOf(run, 1)
    IN IF isEq THEN <<<<0, CharsOf(run, 0)>>>> \o Spans(rest)
       ELSE (IF dels # <<>> THEN <<<<-1, dels>>>> ELSE <<>>)
            \o (IF inss # <<>> THEN <<<<1, inss>>>> ELSE <<>>)
            \o Spans(rest)

\* dmp.diff_main(text1, text2): spans <<op, text>>
diff_main(text1, text2) == Spans(EditScript(text1, text2))

\* diffChars(leftText, rightText): change objects {added, removed, value}
diffChars(leftText, rightText) ==
  LET d == Spans(EditScript(leftText, rightText))
  IN [i \in 1..Len(d) |->
        [added |-> d[i][1] = 1, removed |-> d[i][1] = -1, value |-> d[i][2]]]

(***************************************************************************)
(* dmp.diff_cleanupSemantic (library contract).  Three of its passes       *)
(* change which spans exist: the elimination of an equality that is no     *)
(* longer than the edits on both of its sides, the merge of the resulting  *)
(* runs of edits, and the extraction of an overlap between a deletion and  *)
(* the insertion that follows it.  Its lossless boundary shift moves span  *)
(* boundaries only and is not modelled.                                    *)
(***************************************************************************)
RECURSIVE Eliminate(_, _, _, _, _, _, _, _)
\* the first loop of diff_cleanupSemantic: d the spans, p the pointer,
\* eqs the stack of the positions of the equalities seen, (li1, ld1) and
\* (li2, ld2) the inserted/deleted lengths before and after the last
\* equality, last its text (<<>> for none)
Eliminate(d, p, eqs, li1, ld1, li2, ld2, last) ==
  IF p > Len(d) THEN d
  ELSE IF d[p][1] = 0
       THEN Eliminate(d, p + 1, Append(eqs, p), li2, ld2, 0, 0, d[p][2])
  ELSE
    LET li2n == IF d[p][1] = 1 THEN li2 + Len(d[p][2]) ELSE li2
        ld2n == IF d[p][1] = -1 THEN ld2 + Len(d[p][2]) ELSE ld2
    IN IF /\ last # <<>>
          /\ Len(last) <= Max(li1, ld1)
          /\ Len(last) <= Max(li2n, ld2n)
       THEN LET e == eqs[Len(eqs)]
                d2 == SubSeq(d, 1, e - 1) \o <<<<-1, last>>, <<1, last>>>>
                        \o SubSeq(d, e + 1, Len(d))
                eqs2 == SubSeq(eqs, 1, Len(eqs) - 2)
                p2 == IF eqs2 # <<>> THEN eqs2[Len(eqs2)] + 1 ELSE 1
            IN Eliminate(d2, p2, eqs2, 0, 0, 0, 0, <<>>)
       ELSE Eliminate(d, p + 1, eqs, li1, ld1, li2n, ld2n, last)

RECURSIVE CommonPrefix(_, _)
CommonPrefix(a, b) ==
  IF a # <<>> /\ b # <<>> /\ Head(a) = Head(b)
  THEN 1 + CommonPrefix(Tail(a), Tail(b)) ELSE 0

RECURSIVE CommonSuffix(_, _)
CommonSuffix(a, b) ==
  IF a # <<>> /\ b # <<>> /\ a[Len(a)] = b[Len(b)]
  THEN 1 + CommonSuffix(SubSeq(a, 1, Len(a) - 1), SubSeq(b, 1, Len(b) - 1))
  ELSE 0

\* the spans spelled out one character per op
Flatten(d) ==
  LET RECURSIVE F(_)
      F(i) == IF i > Len(d) THEN <<>>
              ELSE [k \in 1..Len(d[i][2]) |-> <<d[i][1], d[i][2][k]>>] \o F(i + 1)
  IN F(1)

RECURSIVE Factor(_)
\* diff_cleanupMerge on merged runs: the common prefix and the common suffix
\* of a deletion and the insertion after it become equal characters
Factor(d) ==
  IF d = <<>> THEN <<>>
  ELSE IF Len(d) >= 2 /\ d[1][1] = -1 /\ d[2][1] = 1
       THEN LET del == d[1][2]
                ins == d[2][2]
                n == CommonPrefix(del, ins)
                del1 == SubSeq(del, n + 1, Len(del))
                ins1 == SubSeq(ins, n + 1, Len(ins))
                m == CommonSuffix(del1, ins1)
            IN <<<<0, SubSeq(del, 1, n)>>,
                 <<-1, SubSeq(del1, 1, Len(del1) - m)>>,
                 <<1, SubSeq(ins1, 1, Len(ins1) - m)>>,
                 <<0, SubSeq(del1, Len(del1) - m + 1, Len(del1))>>>>
               \o Factor(SubSeq(d, 3, Len(d)))
       ELSE <<d[1]>> \o Factor(Tail(d))

\* dmp.diff_cleanupMerge: one delete and one insert per run of edits, common
\* affixes factored out, neighbouring equalities joined, no empty span
diff_cleanupMerge(d) == Spans(Flatten(Factor(Spans(Flatten(d)))))

RECURSIVE CommonOverlap(_, _)
\* diff_commonOverlap_: the longest suffix of a that is a prefix of b
CommonOverlap(a, b) ==
  LET n == Min(Len(a), Len(b))
      ks == {k \in 0..n : SubSeq(a, Len(a) - k + 1, Len(a)) = SubSeq(b, 1, k)}
  IN CHOOSE k \in ks : \A j \in ks : j <= k

RECURSIVE Overlaps(_)
\* the last loop of diff_cleanupSemantic
Overlaps(d) ==
  IF Len(d) < 2 THEN d
  ELSE IF d[1][1] = -1 /\ d[2][1] = 1
       THEN LET del == d[1][2]
                ins == d[2][2]
                o1 == CommonOverlap(del, ins)
                o2 == CommonOverlap(ins, del)
                rest == Overlaps(SubSeq(d, 3, Len(d)))
            IN IF o1 >= o2
               THEN IF 2 * o1 >= Len(del) \/ 2 * o1 >= Len(ins)
                    THEN <<<<-1, SubSeq(del, 1, Len(del) - o1)>>,
                           <<0, SubSeq(ins, 1, o1)>>,
                           <<1, SubSeq(ins, o1 + 1, Len(ins))>>>> \o rest
                    ELSE <<d[1], d[2]>> \o rest
               ELSE IF 2 * o2 >= Len(del) \/ 2 * o2 >= Len(ins)
                    THEN <<<<1, SubSeq(ins, 1, Len(ins) - o2)>>,
                           <<0, SubSeq(del, 1, o2)>>,
                           <<-1, SubSeq(del, o2 + 1, Len(del))>>>> \o rest
                    ELSE <<d[1], d[2]>> \o rest
       ELSE <<d[1]>> \o Overlaps(Tail(d))

\* dmp.diff_cleanupSemantic(diffs)
diff_cleanupSemantic(d) ==
  LET e == Eliminate(d, 1, <<>>, 0, 0, 0, 0, <<>>)
  IN Overlaps(IF e # d THEN diff_cleanupMerge(e) ELSE e)

(***************************************************************************)
(* compareDocuments and getTextSimilarity.                                 *)
(***************************************************************************)
\* a ratio unchanged/total is kept as the pair of its numerator and its
\* denominator; RatioGT(r, n, d) is r > n/d
RatioGT(r, n, d) == r.num * d > n * r.den
RatioIsOne(r) == r.num = r.den

\* the summed length of the equal spans of a diff
UnchangedLength(diffs) ==
  LET RECURSIVE U(_)
      U(i) == IF i > Len(diffs) THEN 0
              ELSE (IF diffs[i][1] = 0 THEN Len(diffs[i][2]) ELSE 0) + U(i + 1)
  IN U(1)

\* the mutant of getTextSimilarity: the test for two empty texts is missing
getTextSimilarityNoBothEmpty(text1, text2) ==
  IF text1 = <<>> \/ text2 = <<>> THEN [num |-> 0, den |-> 1]
  ELSE [num |-> UnchangedLength(diff_main(text1, text2)),
        den |-> Max(Len(text1), Len(text2))]

getTextSimilarity(text1, text2) ==
  IF text1 = <<>> /\ text2 = <<>> THEN [num |-> 1, den |-> 1]
  ELSE IF text1 = <<>> \/ text2 = <<>> THEN [num |-> 0, den |-> 1]
  ELSE LET diffs == diff_main(text1, text2)
           totalLength == Max(Len(text1), Len(text2))
           unchangedLength == UnchangedLength(diffs)
       IN IF totalLength > 0
          THEN [num |-> unchangedLength, den |-> totalLength]
          ELSE [num |-> 0, den |-> 1]

ZeroSummary == [additions |-> 0, deletions |-> 0, changes |-> 0]

\* the diffs.forEach of compareDocuments, from change i on: the two segment
\* lists and the two counters after it
RECURSIVE CompareLoop(_, _, _)
CompareLoop(diffs, i, acc) ==
  IF i > Len(diffs) THEN acc
  ELSE LET diff == diffs[i]
       IN IF diff.added
          THEN CompareLoop(diffs, i + 1,
                 [acc EXCEPT !.rightDiffs = Append(@, [type |-> "insert", content |-> diff.value]),
                             !.additions = @ + 1])
          ELSE IF diff.removed
          THEN CompareLoop(diffs, i + 1,
                 [acc EXCEPT !.leftDiffs = Append(@, [type |-> "delete", content |-> diff.value]),
                             !.deletions = @ + 1])
          ELSE CompareLoop(diffs, i + 1,
                 [acc EXCEPT !.leftDiffs = Append(@, [type |-> "equal", content |-> diff.value]),
                             !.rightDiffs = Append(@, [type |-> "equal", content |-> diff.value])])

\* the mutant of compareDocuments: an unchanged part is pushed to the left
\* list only
compareDocumentsLeftOnly(leftText, rightText) ==
  LET diffs == diffChars(leftText, rightText)
      l == [i \in 1..Len(diffs) |->
              IF diffs[i].removed THEN <<[type |-> "delete", content |-> diffs[i].value]>>
              ELSE IF diffs[i].added THEN <<>>
              ELSE <<[type |-> "equal", content |-> diffs[i].value]>>]
      r == [i \in 1..Len(diffs) |->
              IF diffs[i].added THEN <<[type |-> "insert", content |-> diffs[i].value]>>
              ELSE <<>>]
  IN [leftDiffs |-> Concat(l), rightDiffs |-> Concat(r), summary |-> ZeroSummary]

compareDocuments(leftText, rightText) ==
  LET diffs == diffChars(leftText, rightText)
      acc == CompareLoop(diffs, 1,
               [leftDiffs |-> <<>>, rightDiffs |-> <<>>, additions |-> 0, deletions |-> 0])
  IN [leftDiffs |-> acc.leftDiffs,
      rightDiffs |-> acc.rightDiffs,
      summary |-> [additions |-> acc.additions,
                   deletions |-> acc.deletions,
                   changes |-> acc.additions + acc.deletions]]

\* renderHtmlDifferences: the contents of a segment list, joined
renderHtmlDifferences(diffs) == Concat([i \in 1..Len(diffs) |-> diffs[i].content])

(***************************************************************************)
(* alignBlocks.  A block is [tagName, text, index]; an alignment entry is  *)
(* [left, right, type] with Null for an absent side.  Positions in the     *)
(* block arrays are 1-based here; a block's index is its 0-based position  *)
(* in the document's element list, as extractBlocks records it.            *)
(***************************************************************************)
Null == [isNull |-> TRUE]
IsNull(x) == "isNull" \in DOMAIN x

SetMin(S) == CHOOSE x \in S : \A y \in S : x <= y

\* Array.prototype.findIndex over positions: the first member of the set of
\* matching positions, 0 when there is none (the source's -1)
findIndex(matching) == IF matching = {} THEN 0 ELSE SetMin(matching)

\* the mutant of ExactCandidates: a right block that is already used can be
\* taken again
ExactCandidatesReuse(leftBlock, rightBlocks, rightUsed) ==
  {idx \in 1..Len(rightBlocks) :
     /\ leftBlock.tagName = rightBlocks[idx].tagName
     /\ areTextsEqual(leftBlock.text, rightBlocks[idx].text)}

\* the mutant of ExactCandidates: a block without text has no exact match
ExactCandidatesNonEmpty(leftBlock, rightBlocks, rightUsed) ==
  {idx \in 1..Len(rightBlocks) :
     /\ idx \notin rightUsed
     /\ leftBlock.text # <<>>
     /\ leftBlock.tagName = rightBlocks[idx].tagName
     /\ areTextsEqual(leftBlock.text, rightBlocks[idx].text)}

\* the mutant of ExactCandidates: the tags of the two blocks are not compared
ExactCandidatesAnyTag(leftBlock, rightBlocks, rightUsed) ==
  {idx \in 1..Len(rightBlocks) :
     /\ idx \notin rightUsed
     /\ areTextsEqual(leftBlock.text, rightBlocks[idx].text)}

\* the predicate of the first pass's findIndex
ExactCandidates(leftBlock, rightBlocks, rightUsed) ==
  {idx \in 1..Len(rightBlocks) :
     /\ idx \notin rightUsed
     /\ leftBlock.tagName = rightBlocks[idx].tagName
     /\ areTextsEqual(leftBlock.text, rightBlocks[idx].text)}

\* the predicate of the second pass's findIndex
SimilarCandidates(leftBlock, rightBlocks, rightUsed) ==
  {idx \in 1..Len(rightBlocks) :
     /\ idx \notin rightUsed
     /\ leftBlock.tagName = rightBlocks[idx].tagName
     /\ RatioGT(getTextSimilarity(leftBlock.text, rightBlocks[idx].text), 6, 10)}

RECURSIVE ExactPass(_, _, _, _)
\* first pass, from left position leftIndex on
ExactPass(leftBlocks, rightBlocks, leftIndex, st) ==
  IF leftIndex > Len(leftBlocks) THEN st
  ELSE LET rightIndex == findIndex(ExactCandidates(leftBlocks[leftIndex], rightBlocks, st.rightUsed))
       IN IF rightIndex # 0
          THEN ExactPass(leftBlocks, rightBlocks, leftIndex + 1,
                 [alignment |-> Append(st.alignment,
                                  [left |-> leftBlocks[leftIndex],
                                   right |-> rightBlocks[rightIndex],
                                   type |-> "equal"]),
                  leftUsed |-> st.leftUsed \cup {leftIndex},
                  rightUsed |-> st.rightUsed \cup {rightIndex}])
          ELSE ExactPass(leftBlocks, rightBlocks, leftIndex + 1, st)

RECURSIVE SimilarPass(_, _, _, _)
\* second pass, from left position leftIndex on
SimilarPass(leftBlocks, rightBlocks, leftIndex, st) ==
  IF leftIndex > Len(leftBlocks) THEN st
  ELSE IF leftIndex \in st.leftUsed
       THEN SimilarPass(leftBlocks, rightBlocks, leftIndex + 1, st)
  ELSE LET rightIndex == findIndex(SimilarCandidates(leftBlocks[leftIndex], rightBlocks, st.rightUsed))
       IN IF rightIndex # 0
          THEN SimilarPass(leftBlocks, rightBlocks, leftIndex + 1,
                 [alignment |-> Append(st.alignment,
                                  [left |-> leftBlocks[leftIndex],
                                   right |-> rightBlocks[rightIndex],
                                   type |-> "modified"]),
                  leftUsed |-> st.leftUsed \cup {leftIndex},
                  rightUsed |-> st.rightUsed \cup {rightIndex}])
          ELSE SimilarPass(leftBlocks, rightBlocks, leftIndex + 1, st)

\* the mutant of UnmatchedPass: the two types are exchanged
UnmatchedPassSwapped(leftBlocks, rightBlocks, st) ==
  st.alignment
    \o [i \in 1..Len(leftBlocks) |->
          [left |-> leftBlocks[i], right |-> Null, type |-> "added"]]
    \o [i \in 1..Len(rightBlocks) |->
          [left |-> Null, right |-> rightBlocks[i], type |-> "removed"]]

\* third pass: the unmatched left blocks, then the unmatched right blocks
UnmatchedPass(leftBlocks, rightBlocks, st) ==
  LET RECURSIVE Removed(_)
      Removed(i) ==
        IF i > Len(leftBlocks) THEN <<>>
        ELSE (IF i \notin st.leftUsed
              THEN <<[left |-> leftBlocks[i], right |-> Null, type |-> "removed"]>>
              ELSE <<>>) \o Removed(i + 1)
      RECURSIVE Added(_)
      Added(i) ==
        IF i > Len(rightBlocks) THEN <<>>
        ELSE (IF i \notin st.rightUsed
              THEN <<[left |-> Null, right |-> rightBlocks[i], type |-> "added"]>>
              ELSE <<>>) \o Added(i + 1)
  IN st.alignment \o Removed(1) \o Added(1)

\* the mutant of SortKey: the key is the right block's index when there is one
SortKeyRightFirst(a) == IF ~IsNull(a.right) THEN a.right.index ELSE a.left.index

\* the sort key of an entry: a.left?.index ?? a.right?.index ?? 0
SortKey(a) ==
  IF ~IsNull(a.left) THEN a.left.index
  ELSE IF ~IsNull(a.right) THEN a.right.index
  ELSE 0

RECURSIVE InsertSorted(_, _)
\* x put into the sorted sequence s after every entry whose key is not larger
InsertSorted(s, x) ==
  IF s = <<>> THEN <<x>>
  ELSE IF SortKey(Head(s)) - SortKey(x) <= 0
       THEN <<Head(s)>> \o InsertSorted(Tail(s), x)
       ELSE <<x>> \o s

RECURSIVE SortAlignment(_)
\* Array.prototype.sort with the comparator aIndex - bIndex; the sort is
\* stable (ECMAScript 2019)
SortAlignment(s) ==
  IF s = <<>> THEN <<>>
  ELSE InsertSorted(SortAlignment(SubSeq(s, 1, Len(s) - 1)), s[Len(s)])

alignBlocks(leftBlocks, rightBlocks) ==
  LET st0 == [alignment |-> <<>>, leftUsed |-> {}, rightUsed |-> {}]
      st1 == ExactPass(leftBlocks, rightBlocks, 1, st0)
      st2 == SimilarPass(leftBlocks, rightBlocks, 1, st1)
  IN SortAlignment(UnmatchedPass(leftBlocks, rightBlocks, st2))

(***************************************************************************)
(* Documents.  An HTML string is modelled by the element list it parses    *)
(* to (htmlToDiv and innerHTML are each other's inverse on it): a sequence *)
(* of top-level nodes, each a text element (p, h1, div, ...), an image, a  *)
(* table, or a placeholder div that a stage inserted.  The cells of a      *)
(* table hold their text directly in the td or, when the table is          *)
(* `wrapped`, in one paragraph per cell.                                   *)
(***************************************************************************)
PlainFmt ==
  [hasBold |-> FALSE, hasItalic |-> FALSE, hasUnderline |-> FALSE,
   fontSize |-> "", textAlign |-> ""]

TextElement(tag, text, fmt) ==
  [kind |-> "text", tagName |-> tag, text |-> text, fmt |-> fmt,
   classList |-> {}, inner |-> <<>>]

Image(src, alt) ==
  [kind |-> "img", tagName |-> "img", src |-> src, alt |-> alt, classList |-> {}]

Cell(text) == [text |-> text, classList |-> {}, inner |-> <<>>]

Table(rows, wrapped) ==
  [kind |-> "table", tagName |-> "table", wrapped |-> wrapped, classList |-> {},
   rows |-> [r \in 1..Len(rows) |->
               [classList |-> {},
                cells |-> [c \in 1..Len(rows[r]) |-> Cell(rows[r][c])]]]]

Placeholder(classes, label) ==
  [kind |-> "placeholder", tagName |-> "div", classList |-> classes, text |-> <<label>>]

\* a block element whose only child is another element: <tag><child/></tag>
Nested(tag, child) ==
  [kind |-> "nested", tagName |-> tag, child |-> child, classList |-> {}]

AddClass(node, cls) == [node EXCEPT !.classList = @ \cup {cls}]

\* the texts of the cells of a table, row by row
CellTexts(table) ==
  Concat([r \in 1..Len(table.rows) |->
            [c \in 1..Len(table.rows[r].cells) |-> table.rows[r].cells[c].text]])

\* Node.textContent
textContent(node) ==
  CASE node.kind = "text" -> node.text
    [] node.kind = "placeholder" -> node.text
    [] node.kind = "table" -> Concat(CellTexts(node))
    [] node.kind = "img" -> <<>>
    [] node.kind = "nested" -> node.child.text

\* htmlToDiv(html): the container of the elements of html
htmlToDiv(html) == html

\* extractPlainText(html): the text content of the whole document
extractPlainText(html) ==
  IF html = <<>> THEN <<>>
  ELSE Concat([i \in 1..Len(html) |-> textContent(html[i])])

\* escapeHtml: &, < and > become entities (one character each here)
escapeHtml(text) ==
  [i \in 1..Len(text) |->
     CASE text[i] = "&" -> "&amp;"
       [] text[i] = "<" -> "&lt;"
       [] text[i] = ">" -> "&gt;"
       [] OTHER -> text[i]]

\* the elements of the document that a tag selector can match, in document
\* order: pos is the top-level node the element is (or lies in), path its
\* place in the tree, nested the tags of its descendants
ElementsOfNode(node, pos) ==
  CASE node.kind \in {"text", "placeholder"} ->
         <<[pos |-> pos, tagName |-> node.tagName, text |-> textContent(node),
            classList |-> node.classList, insideTable |-> FALSE,
            fmt |-> IF node.kind = "text" THEN node.fmt ELSE PlainFmt,
            path |-> <<pos>>, nested |-> {}]>>
    [] node.kind = "table" ->
         <<[pos |-> pos, tagName |-> "table", text |-> textContent(node),
            classList |-> node.classList, insideTable |-> FALSE, fmt |-> PlainFmt,
            path |-> <<pos>>, nested |-> IF node.wrapped THEN {"p"} ELSE {}]>>
         \o (IF node.wrapped
             THEN LET texts == CellTexts(node)
                  IN [k \in 1..Len(texts) |->
                        [pos |-> pos, tagName |-> "p", text |-> texts[k],
                         classList |-> {}, insideTable |-> TRUE, fmt |-> PlainFmt,
                         path |-> <<pos, k>>, nested |-> {}]]
             ELSE <<>>)
    [] node.kind = "img" ->
         <<[pos |-> pos, tagName |-> "img", text |-> <<>>,
            classList |-> node.classList, insideTable |-> FALSE, fmt |-> PlainFmt,
            path |-> <<pos>>, nested |-> {}]>>
    [] node.kind = "nested" ->
         <<[pos |-> pos, tagName |-> node.tagName, text |-> textContent(node),
            classList |-> node.classList, insideTable |-> FALSE, fmt |-> PlainFmt,
            path |-> <<pos>>, nested |-> {node.child.tagName}],
           [pos |-> pos, tagName |-> node.child.tagName, text |-> node.child.text,
            classList |-> node.child.classList, insideTable |-> FALSE,
            fmt |-> node.child.fmt, path |-> <<pos, 1>>, nested |-> {}]>>

\* container.querySelectorAll(<the tags>)
querySelectorAll(container, tags) ==
  LET all == Concat([i \in 1..Len(container) |-> ElementsOfNode(container[i], i)])
  IN SelectSeq(all, LAMBDA e : e.tagName \in tags)

\* isInsideTable(node)
isInsideTable(element) == element.insideTable

BlockSelector == {"p", "h1", "h2", "h3", "h4", "h5", "h6", "div", "li"}

\* extractBlocks(container): index is the position among all the selected
\* elements, the skipped ones included
extractBlocks(container) ==
  LET blockElements == querySelectorAll(container, BlockSelector)
      keep == {k \in 1..Len(blockElements) :
                 ~(isInsideTable(blockElements[k])
                   \/ "placeholder-block" \in blockElements[k].classList)}
      RECURSIVE Push(_)
      Push(k) ==
        IF k > Len(blockElements) THEN <<>>
        ELSE (IF k \in keep
              THEN <<[element |-> blockElements[k].pos,
                      text |-> trim(blockElements[k].text),
                      tagName |-> blockElements[k].tagName,
                      index |-> k - 1]>>
              ELSE <<>>) \o Push(k + 1)
  IN Push(1)

(***************************************************************************)
(* The staged comparison of src/unnamed/part_000.  Each stage is a         *)
(* function of the two documents handed to it; it returns the annotated    *)
(* documents and its {additions, deletions}.                               *)
(***************************************************************************)
\* the elements (top-level positions) on side `side` of the entries of type t
ElementsOfType(alignment, side, t) ==
  {IF side = "left" THEN alignment[k].left.element ELSE alignment[k].right.element :
     k \in {k \in DOMAIN alignment : alignment[k].type = t}}

CountType(alignment, t) ==
  Cardinality({k \in DOMAIN alignment : alignment[k].type = t})

\* the alignment.forEach of applyMutualBlockComparison and its return: the
\* classes the entries put on the elements of their blocks, and the counts
HighlightBlocks(leftDiv, rightDiv, alignment) ==
  [leftWithBlocks |->
     [i \in 1..Len(leftDiv) |->
        IF i \in ElementsOfType(alignment, "left", "removed")
        THEN AddClass(leftDiv[i], "git-line-removed")
        ELSE IF i \in ElementsOfType(alignment, "left", "modified")
        THEN AddClass(leftDiv[i], "git-line-modified")
        ELSE leftDiv[i]],
   rightWithBlocks |->
     [i \in 1..Len(rightDiv) |->
        IF i \in ElementsOfType(alignment, "right", "added")
        THEN AddClass(rightDiv[i], "git-line-added")
        ELSE IF i \in ElementsOfType(alignment, "right", "modified")
        THEN AddClass(rightDiv[i], "git-line-modified")
        ELSE rightDiv[i]],
   blockSummary |->
     [additions |-> CountType(alignment, "added") + CountType(alignment, "modified"),
      deletions |-> CountType(alignment, "removed") + CountType(alignment, "modified")]]

applyMutualBlockComparison(leftHtml, rightHtml) ==
  HighlightBlocks(htmlToDiv(leftHtml), htmlToDiv(rightHtml),
                  alignBlocks(extractBlocks(htmlToDiv(leftHtml)),
                              extractBlocks(htmlToDiv(rightHtml))))

\* the positions of the top-level nodes of a kind (querySelectorAll("img"),
\* querySelectorAll("table")), in document order
PositionsOf(container, kind) ==
  LET RECURSIVE P(_)
      P(i) == IF i > Len(container) THEN <<>>
              ELSE (IF container[i].kind = kind THEN <<i>> ELSE <<>>) \o P(i + 1)
  IN P(1)

\* node put before position k of the container (after its end for Len + 1)
InsertBefore(container, k, node) ==
  SubSeq(container, 1, k - 1) \o <<node>> \o SubSeq(container, k, Len(container))

\* insertImagePlaceholder / insertTablePlaceholder: before the targetIndex-th
\* (0-based) image or table of the container, else right after its last
\* one, else at its end
insertPlaceholder(container, kind, placeholder, targetIndex) ==
  LET found == PositionsOf(container, kind)
  IN IF targetIndex < Len(found)
     THEN InsertBefore(container, found[targetIndex + 1], placeholder)
     ELSE IF Len(found) > 0
     THEN InsertBefore(container, found[Len(found)] + 1, placeholder)
     ELSE Append(container, placeholder)

\* createImagePlaceholder / createTablePlaceholder(original, type)
createPlaceholder(what, type) ==
  Placeholder({IF what = "Image" THEN "image-placeholder" ELSE "table-placeholder",
               IF type = "added" THEN "placeholder-added" ELSE "placeholder-removed"},
              IF what = "Image"
              THEN (IF type = "added" THEN "[Image Added]" ELSE "[Image Removed]")
              ELSE (IF type = "added" THEN "[Table Added]" ELSE "[Table Removed]"))

RECURSIVE ImageLoop(_, _, _, _)
\* the for loop of applyMutualImageComparison from image i (0-based) on;
\* leftImages and rightImages are the positions found before the loop
ImageLoop(i, leftImages, rightImages, st) ==
  IF i >= Max(Len(leftImages), Len(rightImages)) THEN st
  ELSE IF i < Len(leftImages) /\ ~(i < Len(rightImages))
       THEN ImageLoop(i + 1, leftImages, rightImages,
              [st EXCEPT !.left[leftImages[i + 1]] = AddClass(@, "structural-removed"),
                         !.deletions = @ + 1,
                         !.right = insertPlaceholder(@, "img", createPlaceholder("Image", "added"), i)])
  ELSE IF ~(i < Len(leftImages)) /\ i < Len(rightImages)
       THEN ImageLoop(i + 1, leftImages, rightImages,
              [st EXCEPT !.right[rightImages[i + 1]] = AddClass(@, "structural-added"),
                         !.additions = @ + 1,
                         !.left = insertPlaceholder(@, "img", createPlaceholder("Image", "removed"), i)])
  ELSE IF st.left[leftImages[i + 1]].src # st.right[rightImages[i + 1]].src
       THEN ImageLoop(i + 1, leftImages, rightImages,
              [st EXCEPT !.left[leftImages[i + 1]] = AddClass(@, "structural-modified"),
                         !.right[rightImages[i + 1]] = AddClass(@, "structural-modified"),
                         !.additions = @ + 1,
                         !.deletions = @ + 1])
  ELSE ImageLoop(i + 1, leftImages, rightImages, st)

\* the value a stage returns: the two documents and the two counts of st
StageOutput(st, leftName, rightName, summaryName) ==
  [k \in {leftName, rightName, summaryName} |->
     IF k = leftName THEN st.left
     ELSE IF k = rightName THEN st.right
     ELSE [additions |-> st.additions, deletions |-> st.deletions]]

applyMutualImageComparison(leftHtml, rightHtml) ==
  StageOutput(ImageLoop(0, PositionsOf(htmlToDiv(leftHtml), "img"),
                        PositionsOf(htmlToDiv(rightHtml), "img"),
                        [left |-> htmlToDiv(leftHtml), right |-> htmlToDiv(rightHtml),
                         additions |-> 0, deletions |-> 0]),
              "leftWithImages", "rightWithImages", "imageSummary")

\* applyDiffHighlighting without the placeholders of the other side
applyDiffHighlightingOwnSide(diffs, side) ==
  LET own == SelectSeq(diffs, LAMBDA d : d[1] = 0 \/ (d[1] = 1 /\ side = "right")
                                          \/ (d[1] = -1 /\ side = "left"))
  IN [i \in 1..Len(own) |->
        [cls |-> IF own[i][1] = 0 THEN ""
                 ELSE IF own[i][1] = 1 THEN "git-inline-added" ELSE "git-inline-removed",
         text |-> escapeHtml(own[i][2])]]

\* applyDiffHighlighting(diffs, side): the markup as the list of its pieces
\* [cls, text]; cls "" is bare text, text is the text the piece shows
applyDiffHighlighting(diffs, side) ==
  [i \in 1..Len(diffs) |->
     LET operation == diffs[i][1]
         text == diffs[i][2]
     IN IF operation = 0 THEN [cls |-> "", text |-> escapeHtml(text)]
        ELSE IF operation = 1 /\ side = "right"
        THEN [cls |-> "git-inline-added", text |-> escapeHtml(text)]
        ELSE IF operation = -1 /\ side = "left"
        THEN [cls |-> "git-inline-removed", text |-> escapeHtml(text)]
        ELSE IF operation = 1 /\ side = "left"
        THEN [cls |-> "git-inline-placeholder", text |-> <<"[+">> \o escapeHtml(text) \o <<"]">>]
        ELSE [cls |-> "git-inline-placeholder", text |-> <<"[-">> \o escapeHtml(text) \o <<"]">>]]

\* element.innerHTML = highlighted: the element shows the pieces' texts
SetInnerHTML(element, highlighted) ==
  [element EXCEPT !.inner = highlighted,
                  !.text = Concat([i \in 1..Len(highlighted) |-> highlighted[i].text])]

applyWordLevelCellDiff(cell, leftText, rightText, side) ==
  SetInnerHTML(cell, applyDiffHighlighting(diff_cleanupSemantic(diff_main(leftText, rightText)), side))

\* the two cells at the same place of two rows differ
CellsDiffer(leftCell, rightCell) ==
  ~areTextsEqual(trim(leftCell.text), trim(rightCell.text))

\* compareTableContents(leftTable, rightTable): the two tables as marked,
\* and the counts, one per row or cell that differs
compareTableContents(leftTable, rightTable) ==
  LET leftRows == leftTable.rows
      rightRows == rightTable.rows
      both == 1..Min(Len(leftRows), Len(rightRows))
      cellsOf(rows, r) == rows[r].cells
      bothCells(r) == 1..Min(Len(cellsOf(leftRows, r)), Len(cellsOf(rightRows, r)))
      modified(r) == {c \in bothCells(r) :
                        CellsDiffer(cellsOf(leftRows, r)[c], cellsOf(rightRows, r)[c])}
      markRow(rows, others, r, side) ==
        IF r > Len(others)
        THEN AddClass(rows[r], IF side = "left" THEN "git-row-removed" ELSE "git-row-added")
        ELSE [rows[r] EXCEPT !.cells =
                [c \in 1..Len(@) |->
                   IF c > Len(others[r].cells)
                   THEN AddClass(@[c], IF side = "left" THEN "git-cell-removed" ELSE "git-cell-added")
                   ELSE IF c \in modified(r)
                   THEN applyWordLevelCellDiff(AddClass(@[c], "git-cell-modified"),
                          trim(cellsOf(leftRows, r)[c].text),
                          trim(cellsOf(rightRows, r)[c].text), side)
                   ELSE @[c]]]
      RECURSIVE Count(_, _)
      \* rows and cells from row r on that `rows` has beyond `others`, plus
      \* the cells modified
      Count(r, side) ==
        LET rows == IF side = "left" THEN leftRows ELSE rightRows
            others == IF side = "left" THEN rightRows ELSE leftRows
        IN IF r > Max(Len(leftRows), Len(rightRows)) THEN 0
           ELSE (IF r > Len(rows) THEN 0
                 ELSE IF r > Len(others) THEN 1
                 ELSE Max(Len(rows[r].cells) - Len(others[r].cells), 0)
                      + Cardinality(modified(r)))
                + Count(r + 1, side)
  IN [left |-> [leftTable EXCEPT !.rows =
                  [r \in 1..Len(leftRows) |-> markRow(leftRows, rightRows, r, "left")]],
      right |-> [rightTable EXCEPT !.rows =
                  [r \in 1..Len(rightRows) |-> markRow(rightRows, leftRows, r, "right")]],
      tableAdditions |-> Count(1, "right"),
      tableDeletions |-> Count(1, "left")]

\* the tables at positions l and r of st replaced by the compared tables c,
\* their counts added
WithComparedTables(st, l, r, c) ==
  [st EXCEPT !.left[l] = c.left,
             !.right[r] = c.right,
             !.additions = @ + c.tableAdditions,
             !.deletions = @ + c.tableDeletions]

RECURSIVE TableLoop(_, _, _, _)
\* the for loop of applyMutualTableComparison from table t (0-based) on
TableLoop(t, leftTables, rightTables, st) ==
  IF t >= Max(Len(leftTables), Len(rightTables)) THEN st
  ELSE IF t < Len(leftTables) /\ ~(t < Len(rightTables))
       THEN TableLoop(t + 1, leftTables, rightTables,
              [st EXCEPT !.left[leftTables[t + 1]] = AddClass(@, "structural-removed"),
                         !.deletions = @ + 1,
                         !.right = insertPlaceholder(@, "table", createPlaceholder("Table", "added"), t)])
  ELSE IF ~(t < Len(leftTables)) /\ t < Len(rightTables)
       THEN TableLoop(t + 1, leftTables, rightTables,
              [st EXCEPT !.right[rightTables[t + 1]] = AddClass(@, "structural-added"),
                         !.additions = @ + 1,
                         !.left = insertPlaceholder(@, "table", createPlaceholder("Table", "removed"), t)])
  ELSE TableLoop(t + 1, leftTables, rightTables,
         WithComparedTables(st, leftTables[t + 1], rightTables[t + 1],
           compareTableContents(st.left[leftTables[t + 1]], st.right[rightTables[t + 1]])))

applyMutualTableComparison(leftHtml, rightHtml) ==
  StageOutput(TableLoop(0, PositionsOf(htmlToDiv(leftHtml), "table"),
                        PositionsOf(htmlToDiv(rightHtml), "table"),
                        [left |-> htmlToDiv(leftHtml), right |-> htmlToDiv(rightHtml),
                         additions |-> 0, deletions |-> 0]),
              "leftWithTables", "rightWithTables", "tableSummary")

WordSelector == {"p", "h1", "h2", "h3", "h4", "h5", "h6", "li"}

\* getTextBlocksForWordComparison without the test for highlighted blocks
getTextBlocksUnfiltered(container) ==
  LET elements == querySelectorAll(container, WordSelector)
      kept == SelectSeq(elements, LAMBDA e : ~isInsideTable(e) /\ trim(e.text) # <<>>)
  IN [k \in 1..Len(kept) |->
        [element |-> kept[k].pos, text |-> trim(kept[k].text), tagName |-> kept[k].tagName]]

\* getTextBlocksForWordComparison(container)
getTextBlocksForWordComparison(container) ==
  LET elements == querySelectorAll(container, WordSelector)
      kept == SelectSeq(elements, LAMBDA e :
                ~("git-line-added" \in e.classList
                  \/ "git-line-removed" \in e.classList
                  \/ "git-line-modified" \in e.classList
                  \/ "placeholder-block" \in e.classList
                  \/ isInsideTable(e))
                /\ trim(e.text) # <<>>)
  IN [k \in 1..Len(kept) |->
        [element |-> kept[k].pos, text |-> trim(kept[k].text), tagName |-> kept[k].tagName]]

\* similarity r1 > similarity r2
RatioGreater(r1, r2) == r1.num * r2.den > r2.num * r1.den

\* the best match after the right block at rightIndex, whose similarity to
\* the left block is similarity, was looked at
Better(best, rightIndex, similarity) ==
  IF RatioGreater(similarity, best.similarity) /\ RatioGT(similarity, 3, 10)
  THEN [index |-> rightIndex, similarity |-> similarity]
  ELSE best

RECURSIVE BestMatch(_, _, _, _, _)
\* the inner rightBlocks.forEach of alignTextBlocks from rightIndex on:
\* best is the best match so far (index 0 for none)
BestMatch(leftBlock, rightBlocks, rightUsed, rightIndex, best) ==
  IF rightIndex > Len(rightBlocks) THEN best
  ELSE IF rightIndex \in rightUsed \/ leftBlock.tagName # rightBlocks[rightIndex].tagName
       THEN BestMatch(leftBlock, rightBlocks, rightUsed, rightIndex + 1, best)
  ELSE BestMatch(leftBlock, rightBlocks, rightUsed, rightIndex + 1,
         Better(best, rightIndex,
                getTextSimilarity(leftBlock.text, rightBlocks[rightIndex].text)))

\* the end of a round of the leftBlocks.forEach of alignTextBlocks: the pair
\* is pushed when there is a best match (bestMatch.index is not 0)
PushMatch(st, leftBlock, rightBlocks, bestMatch) ==
  IF bestMatch.index # 0
  THEN [alignment |-> Append(st.alignment,
           [left |-> leftBlock,
            right |-> rightBlocks[bestMatch.index],
            type |-> IF RatioIsOne(bestMatch.similarity) THEN "equal" ELSE "modified"]),
        rightUsed |-> st.rightUsed \cup {bestMatch.index}]
  ELSE st

RECURSIVE AlignTextLoop(_, _, _, _)
AlignTextLoop(leftBlocks, rightBlocks, leftIndex, st) ==
  IF leftIndex > Len(leftBlocks) THEN st
  ELSE AlignTextLoop(leftBlocks, rightBlocks, leftIndex + 1,
         PushMatch(st, leftBlocks[leftIndex], rightBlocks,
           BestMatch(leftBlocks[leftIndex], rightBlocks, st.rightUsed, 1,
                     [index |-> 0, similarity |-> [num |-> 0, den |-> 1]])))

\* alignTextBlocks(leftBlocks, rightBlocks): the matched pairs only
alignTextBlocks(leftBlocks, rightBlocks) ==
  AlignTextLoop(leftBlocks, rightBlocks, 1, [alignment |-> <<>>, rightUsed |-> {}]).alignment

\* the number of spans of operation op in diffs
CountOps(diffs, op) == Cardinality({i \in DOMAIN diffs : diffs[i][1] = op})

\* the body of the forEach of applyMutualWordLevelComparison for a modified
\* pair whose texts differ by diffs
HighlightPair(st, left, right, diffs) ==
  [st EXCEPT !.left[left.element] = SetInnerHTML(@, applyDiffHighlighting(diffs, "left")),
             !.right[right.element] = SetInnerHTML(@, applyDiffHighlighting(diffs, "right")),
             !.additions = @ + CountOps(diffs, 1),
             !.deletions = @ + CountOps(diffs, -1)]

RECURSIVE WordLoop(_, _, _)
\* the blockAlignment.forEach of applyMutualWordLevelComparison from entry k
WordLoop(blockAlignment, k, st) ==
  IF k > Len(blockAlignment) THEN st
  ELSE IF blockAlignment[k].type = "modified"
       THEN WordLoop(blockAlignment, k + 1,
              HighlightPair(st, blockAlignment[k].left, blockAlignment[k].right,
                diff_cleanupSemantic(diff_main(blockAlignment[k].left.text,
                                               blockAlignment[k].right.text))))
       ELSE WordLoop(blockAlignment, k + 1, st)

applyMutualWordLevelComparison(leftHtml, rightHtml) ==
  StageOutput(WordLoop(alignTextBlocks(getTextBlocksForWordComparison(htmlToDiv(leftHtml)),
                                       getTextBlocksForWordComparison(htmlToDiv(rightHtml))),
                       1,
                       [left |-> htmlToDiv(leftHtml), right |-> htmlToDiv(rightHtml),
                        additions |-> 0, deletions |-> 0]),
              "leftFinal", "rightFinal", "textSummary")

(***************************************************************************)
(* The detailed report of src/unnamed/part_000.                            *)
(***************************************************************************)
BLOCK_TAGS == {"p", "h1", "h2", "h3", "h4", "h5", "h6", "li", "pre", "div"}

\* extractLineFeatures(element)
extractLineFeatures(element) == element.fmt

\* collectBlockLinesWithFormat(root): index counts the kept lines
collectBlockLinesWithFormat(root) ==
  LET blocks == SelectSeq(querySelectorAll(root, BLOCK_TAGS), LAMBDA b : ~isInsideTable(b))
  IN [idx \in 1..Len(blocks) |->
        [index |-> idx - 1, text |-> blocks[idx].text,
         fmt |-> extractLineFeatures(blocks[idx]), element |-> blocks[idx].pos]]

\* visibleSpaces(s): a space shows as a marked middle dot, a tab as a
\* marked arrow
visibleSpaces(s) ==
  [i \in 1..Len(s) |-> CASE s[i] = " " -> "<ws>middot</ws>" [] s[i] = "\t" -> "<ws>rarr</ws>" [] OTHER -> s[i]]

\* inlineDiffHtml(a, b): the pieces [cls, text] of the inline diff
inlineDiffHtml(a, b) ==
  LET diffs == diff_cleanupSemantic(diff_main(a, b))
  IN [i \in 1..Len(diffs) |->
        [cls |-> IF diffs[i][1] = 1 THEN "git-inline-added"
                 ELSE IF diffs[i][1] = -1 THEN "git-inline-removed" ELSE "",
         text |-> visibleSpaces(escapeHtml(diffs[i][2]))]]

OnOff(flag) == IF flag THEN "on" ELSE "off"
OrAuto(value) == IF value = "" THEN "auto" ELSE value

\* compareFormat with the italic test before the bold test
compareFormatItalicFirst(fa, fb) ==
  (IF fa.hasItalic # fb.hasItalic
   THEN <<<<"italic", OnOff(fa.hasItalic), OnOff(fb.hasItalic)>>>> ELSE <<>>)
  \o (IF fa.hasBold # fb.hasBold
      THEN <<<<"bold", OnOff(fa.hasBold), OnOff(fb.hasBold)>>>> ELSE <<>>)
  \o (IF fa.hasUnderline # fb.hasUnderline
      THEN <<<<"underline", OnOff(fa.hasUnderline), OnOff(fb.hasUnderline)>>>> ELSE <<>>)
  \o (IF fa.fontSize # fb.fontSize
      THEN <<<<"font-size", OrAuto(fa.fontSize), OrAuto(fb.fontSize)>>>> ELSE <<>>)
  \o (IF fa.textAlign # fb.textAlign
      THEN <<<<"alignment", OrAuto(fa.textAlign), OrAuto(fb.textAlign)>>>> ELSE <<>>)

\* compareFormat(fa, fb): one change <<attribute, from, to>> per attribute
\* that differs, in the fixed order of the attributes
compareFormat(fa, fb) ==
  (IF fa.hasBold # fb.hasBold
   THEN <<<<"bold", OnOff(fa.hasBold), OnOff(fb.hasBold)>>>> ELSE <<>>)
  \o (IF fa.hasItalic # fb.hasItalic
      THEN <<<<"italic", OnOff(fa.hasItalic), OnOff(fb.hasItalic)>>>> ELSE <<>>)
  \o (IF fa.hasUnderline # fb.hasUnderline
      THEN <<<<"underline", OnOff(fa.hasUnderline), OnOff(fb.hasUnderline)>>>> ELSE <<>>)
  \o (IF fa.fontSize # fb.fontSize
      THEN <<<<"font-size", OrAuto(fa.fontSize), OrAuto(fb.fontSize)>>>> ELSE <<>>)
  \o (IF fa.textAlign # fb.textAlign
      THEN <<<<"alignment", OrAuto(fa.textAlign), OrAuto(fb.textAlign)>>>> ELSE <<>>)

\* the normalize of areWordsEquivalent: quotes and dashes are unified, the
\* ends trimmed, the case folded; inner whitespace is kept (a curly quote or
\* a long dash is one character, written here by its entity name)
wordNormalize(word) ==
  toLowerCase(trim([i \in 1..Len(word) |->
    CASE word[i] \in {"ldquo", "rdquo", "lsquo", "rsquo"} -> "\""
      [] word[i] \in {"ndash", "mdash"} -> "-"
      [] OTHER -> word[i]]))

areWordsEquivalent(word1, word2) == wordNormalize(word1) = wordNormalize(word2)

\* diffArrays(leftTexts, rightTexts, {comparator: areWordsEquivalent}): the
\* parts <<op, values>> of a minimal edit script over the lines, two lines
\* being the same when the comparator says so
diffArrays(leftTexts, rightTexts) ==
  Spans(EditScript([i \in 1..Len(leftTexts) |-> wordNormalize(leftTexts[i])],
                   [i \in 1..Len(rightTexts) |-> wordNormalize(rightTexts[i])]))

RECURSIVE LinesLoop(_, _, _, _, _)
\* the loops over the parts of generateDetailedReport: steps is the list of
\* the operations of the parts, one per counted line, from step s on
LinesLoop(steps, s, leftLines, rightLines, st) ==
  IF s > Len(steps) THEN st.lines
  ELSE IF steps[s] = 1
  THEN LET present == st.iR + 1 <= Len(rightLines)
           shown == present /\ trim(rightLines[st.iR + 1].text) # <<>>
       IN LinesLoop(steps, s + 1, leftLines, rightLines,
            [st EXCEPT !.iR = @ + 1,
                       !.v2 = IF shown THEN @ + 1 ELSE @,
                       !.lines = IF shown
                                 THEN Append(@, [v1 |-> "", v2 |-> ToString(st.v2),
                                                 status |-> "ADDED",
                                                 diffHtml |-> inlineDiffHtml(<<>>, rightLines[st.iR + 1].text),
                                                 formatChanges |-> <<"added line">>])
                                 ELSE @])
  ELSE IF steps[s] = -1
  THEN LET present == st.iL + 1 <= Len(leftLines)
           shown == present /\ trim(leftLines[st.iL + 1].text) # <<>>
       IN LinesLoop(steps, s + 1, leftLines, rightLines,
            [st EXCEPT !.iL = @ + 1,
                       !.v1 = IF shown THEN @ + 1 ELSE @,
                       !.lines = IF shown
                                 THEN Append(@, [v1 |-> ToString(st.v1), v2 |-> "",
                                                 status |-> "REMOVED",
                                                 diffHtml |-> inlineDiffHtml(leftLines[st.iL + 1].text, <<>>),
                                                 formatChanges |-> <<"removed line">>])
                                 ELSE @])
  ELSE IF ~(st.iL + 1 <= Len(leftLines) /\ st.iR + 1 <= Len(rightLines))
  THEN LinesLoop(steps, s + 1, leftLines, rightLines,
                 [st EXCEPT !.iL = @ + 1, !.iR = @ + 1])
  ELSE LET l == leftLines[st.iL + 1]
           r == rightLines[st.iR + 1]
           textEqual == areWordsEquivalent(l.text, r.text)
           fmtChanges == compareFormat(l.fmt, r.fmt)
           status == IF textEqual /\ Len(fmtChanges) > 0 THEN "FORMATTING-ONLY"
                     ELSE IF textEqual THEN "UNCHANGED"
                     ELSE IF trim(l.text) # <<>> \/ trim(r.text) # <<>> THEN "MODIFIED"
                     ELSE "none"
       IN LinesLoop(steps, s + 1, leftLines, rightLines,
            [st EXCEPT !.iL = @ + 1,
                       !.iR = @ + 1,
                       !.v1 = IF status # "none" THEN @ + 1 ELSE @,
                       !.v2 = IF status # "none" THEN @ + 1 ELSE @,
                       !.lines = IF status = "none" THEN @
                                 ELSE Append(@, [v1 |-> ToString(st.v1), v2 |-> ToString(st.v2),
                                                 status |-> status,
                                                 diffHtml |-> IF status = "MODIFIED"
                                                              THEN inlineDiffHtml(l.text, r.text)
                                                              ELSE <<[cls |-> "", text |-> visibleSpaces(escapeHtml(l.text))]>>,
                                                 formatChanges |-> IF status = "UNCHANGED" THEN <<>> ELSE fmtChanges])])

\* the entries of the table report for the cells of row ri of table ti
CellReport(ti, ri, cL, cR) ==
  Concat([ci \in 1..Max(Len(cL), Len(cR)) |->
    IF ci > Len(cL)
    THEN <<[table |-> ti, row |-> ri, col |-> ci, status |-> "ADDED"]>>
    ELSE IF ci > Len(cR)
    THEN <<[table |-> ti, row |-> ri, col |-> ci, status |-> "REMOVED"]>>
    ELSE LET a == trim(cL[ci].text)
             b == trim(cR[ci].text)
         IN IF a # <<>> /\ b # <<>> /\ ~areWordsEquivalent(a, b)
            THEN <<[table |-> ti, row |-> ri, col |-> ci, status |-> "MODIFIED",
                    diffHtml |-> inlineDiffHtml(a, b)]>>
            ELSE <<>>])

\* the mutant of RowReport: a row of one side only gets the status of the
\* other side
RowReportSwapped(ti, rL, rR) ==
  Concat([ri \in 1..Max(Len(rL), Len(rR)) |->
    IF ri > Len(rL) THEN <<[table |-> ti, row |-> ri, status |-> "REMOVED"]>>
    ELSE IF ri > Len(rR) THEN <<[table |-> ti, row |-> ri, status |-> "ADDED"]>>
    ELSE CellReport(ti, ri, rL[ri].cells, rR[ri].cells)])

\* the entries of the table report for table ti present on both sides
RowReport(ti, rL, rR) ==
  Concat([ri \in 1..Max(Len(rL), Len(rR)) |->
    IF ri > Len(rL) THEN <<[table |-> ti, row |-> ri, status |-> "ADDED"]>>
    ELSE IF ri > Len(rR) THEN <<[table |-> ti, row |-> ri, status |-> "REMOVED"]>>
    ELSE CellReport(ti, ri, rL[ri].cells, rR[ri].cells)])

\* the tables report of generateDetailedReport
TableReport(L, R) ==
  LET Lt == PositionsOf(L, "table")
      Rt == PositionsOf(R, "table")
  IN Concat([ti \in 1..Max(Len(Lt), Len(Rt)) |->
       IF ti > Len(Lt) THEN <<[table |-> ti, status |-> "ADDED"]>>
       ELSE IF ti > Len(Rt) THEN <<[table |-> ti, status |-> "REMOVED"]>>
       ELSE RowReport(ti, L[Lt[ti]].rows, R[Rt[ti]].rows)])

\* the images report of generateDetailedReport: an image whose src is empty
\* counts as no image
ImageReport(L, R) ==
  LET Li == [k \in 1..Len(PositionsOf(L, "img")) |-> L[PositionsOf(L, "img")[k]].src]
      Ri == [k \in 1..Len(PositionsOf(R, "img")) |-> R[PositionsOf(R, "img")[k]].src]
      a(i) == IF i <= Len(Li) THEN Li[i] ELSE ""
      b(i) == IF i <= Len(Ri) THEN Ri[i] ELSE ""
  IN Concat([i \in 1..Max(Len(Li), Len(Ri)) |->
       IF a(i) # "" /\ b(i) = "" THEN <<[index |-> i, status |-> "REMOVED", src |-> a(i)]>>
       ELSE IF a(i) = "" /\ b(i) # "" THEN <<[index |-> i, status |-> "ADDED", src |-> b(i)]>>
       ELSE IF a(i) # "" /\ b(i) # "" /\ a(i) # b(i)
       THEN <<[index |-> i, status |-> "REPLACED", from |-> a(i), to |-> b(i)]>>
       ELSE <<>>])

EmptyReport == [lines |-> <<>>, tables |-> <<>>, images |-> <<>>]

generateDetailedReport(leftHtml, rightHtml) ==
  LET L == htmlToDiv(leftHtml)
      R == htmlToDiv(rightHtml)
      leftLines == collectBlockLinesWithFormat(L)
      rightLines == collectBlockLinesWithFormat(R)
      parts == diffArrays([i \in 1..Len(leftLines) |-> leftLines[i].text],
                          [i \in 1..Len(rightLines) |-> rightLines[i].text])
      flat == Flatten(parts)
      steps == [s \in 1..Len(flat) |-> flat[s][1]]
  IN [lines |-> LinesLoop(steps, 1, leftLines, rightLines,
                          [iL |-> 0, iR |-> 0, v1 |-> 1, v2 |-> 1, lines |-> <<>>]),
      tables |-> TableReport(L, R),
      images |-> ImageReport(L, R)]

(***************************************************************************)
(* The position-indexed comparison of src/src/utils/textComparison.js.     *)
(***************************************************************************)
\* the texts ss joined by the separator sep
Join(ss, sep) ==
  LET RECURSIVE J(_)
      J(i) == IF i > Len(ss) THEN <<>>
              ELSE (IF i > 1 THEN sep ELSE <<>>) \o ss[i] \o J(i + 1)
  IN J(1)

\* extractTableText(table): cells trimmed and joined by " | ", rows by a
\* line break
extractTableText(table) ==
  Join([r \in 1..Len(table.rows) |->
          Join([c \in 1..Len(table.rows[r].cells) |-> trim(table.rows[r].cells[c].text)],
               <<" ", "|", " ">>)],
       <<"\n">>)

AllSelector == {"p", "h1", "h2", "h3", "h4", "h5", "h6", "li", "table", "img", "div"}

\* the selector of element.querySelector in extractAllElements
NestedSelector == {"p", "h1", "h2", "h3", "h4", "h5", "h6", "li", "table", "img"}

\* extractAllElements(container): element is the node's position, html the
\* node (its outerHTML for a table or an image, its content otherwise)
extractAllElements(container) ==
  LET allNodes == querySelectorAll(container, AllSelector)
      RECURSIVE Push(_)
      Push(k) ==
        IF k > Len(allNodes) THEN <<>>
        ELSE LET element == allNodes[k]
                 node == container[element.pos]
             IN (IF element.tagName \in {"table", "img"}
                 THEN LET text == IF element.tagName = "table" THEN extractTableText(node)
                                  ELSE IF node.alt # <<>> THEN node.alt
                                  ELSE <<"Image ", ToString(k)>>
                      IN <<[element |-> element.pos, text |-> text, html |-> node,
                            index |-> k - 1, tagName |-> element.tagName,
                            isEmpty |-> trim(text) = <<>>,
                            isTable |-> element.tagName = "table",
                            isImage |-> element.tagName = "img"]>>
                 ELSE IF ~element.insideTable /\ element.nested \cap NestedSelector = {}
                 THEN <<[element |-> element.pos, text |-> trim(element.text), html |-> node,
                         index |-> k - 1, tagName |-> element.tagName,
                         isEmpty |-> trim(element.text) = <<>>,
                         isTable |-> FALSE, isImage |-> FALSE]>>
                 ELSE <<>>) \o Push(k + 1)
  IN Push(1)

\* compareTableContent(table1, table2)
compareTableContent(table1, table2) == extractTableText(table1) = extractTableText(table2)

\* the images of two elements have the same src and the same alt
ImagesEqual(element1, element2) ==
  element1.html.src = element2.html.src /\ element1.html.alt = element2.html.alt

\* areElementsEqual(element1, element2)
areElementsEqual(element1, element2) ==
  IF element1.isTable /\ element2.isTable
  THEN compareTableContent(element1.html, element2.html)
  ELSE IF element1.isImage /\ element2.isImage
  THEN ImagesEqual(element1, element2)
  ELSE areTextsEqual(element1.text, element2.text)

\* performWordLevelDiff(leftHtml, rightHtml)
performWordLevelDiff(leftHtml, rightHtml) ==
  LET diffs == diff_cleanupSemantic(diff_main(extractPlainText(<<leftHtml>>),
                                              extractPlainText(<<rightHtml>>)))
  IN [leftHighlighted |-> applyDiffHighlighting(diffs, "left"),
      rightHighlighted |-> applyDiffHighlighting(diffs, "right")]

\* {...element, highlight}
WithHighlight(element, highlight) ==
  [k \in DOMAIN element \cup {"highlight"} |->
     IF k = "highlight" THEN highlight ELSE element[k]]

placeholderType(element) ==
  IF element.isTable THEN "table" ELSE IF element.isImage THEN "image" ELSE "text"

\* {...element, highlight, placeholderText, placeholderType} for the empty
\* element that faces `other`
WithPlaceholder(element, highlight, other) ==
  [k \in DOMAIN element \cup {"highlight", "placeholderText", "placeholderType"} |->
     CASE k = "highlight" -> highlight
       [] k = "placeholderText" -> other.text
       [] k = "placeholderType" -> placeholderType(other)
       [] OTHER -> element[k]]

\* MissingElement with the highlight of a real element
MissingElementPlain(highlight, other) ==
  [element |-> 0, text |-> <<>>, html |-> <<>>, isEmpty |-> TRUE,
   highlight |-> "none", placeholderText |-> other.text,
   placeholderType |-> placeholderType(other), tagName |-> other.tagName]

\* the entry pushed where one side has no element at all
MissingElement(highlight, other) ==
  [element |-> 0, text |-> <<>>, html |-> <<>>, isEmpty |-> TRUE,
   highlight |-> highlight, placeholderText |-> other.text,
   placeholderType |-> placeholderType(other), tagName |-> other.tagName]

\* {...element, highlight: 'modified', processedHtml}
WithProcessedHtml(element, processedHtml) ==
  [k \in DOMAIN element \cup {"highlight", "processedHtml"} |->
     CASE k = "highlight" -> "modified"
       [] k = "processedHtml" -> processedHtml
       [] OTHER -> element[k]]

\* one round of the loop of performMutualElementComparison: what it pushes
\* and what it counts for position i (1-based)
ElementStep(leftElements, rightElements, i) ==
  LET hasLeft == i <= Len(leftElements)
      hasRight == i <= Len(rightElements)
      l == leftElements[i]
      r == rightElements[i]
      both(h, n) == [left |-> WithHighlight(l, h), right |-> WithHighlight(r, h),
                     additions |-> n, deletions |-> n]
  IN IF hasLeft /\ hasRight
     THEN IF l.isTable /\ r.isTable
          THEN (IF compareTableContent(l.html, r.html) THEN both("none", 0) ELSE both("modified", 1))
          ELSE IF l.isImage /\ r.isImage
          THEN (IF ImagesEqual(l, r) THEN both("none", 0) ELSE both("modified", 1))
          ELSE IF l.isEmpty /\ r.isEmpty THEN both("none", 0)
          ELSE IF l.isEmpty /\ ~r.isEmpty
          THEN [left |-> WithPlaceholder(l, "empty-space-added", r),
                right |-> WithHighlight(r, "added"),
                additions |-> 1, deletions |-> 0]
          ELSE IF ~l.isEmpty /\ r.isEmpty
          THEN [left |-> WithHighlight(l, "removed"),
                right |-> WithPlaceholder(r, "empty-space-removed", l),
                additions |-> 0, deletions |-> 1]
          ELSE IF areElementsEqual(l, r) THEN both("none", 0)
          ELSE IF l.isTable \/ r.isTable \/ l.isImage \/ r.isImage THEN both("modified", 1)
          ELSE LET d == performWordLevelDiff(l.html, r.html)
               IN [left |-> WithProcessedHtml(l, d.leftHighlighted),
                   right |-> WithProcessedHtml(r, d.rightHighlighted),
                   additions |-> 1, deletions |-> 1]
     ELSE IF hasLeft
     THEN [left |-> WithHighlight(l, "removed"),
           right |-> MissingElement("empty-space-removed", l),
           additions |-> 0, deletions |-> 1]
     ELSE [left |-> MissingElement("empty-space-added", r),
           right |-> WithHighlight(r, "added"),
           additions |-> 1, deletions |-> 0]

\* the sum of f[i] over i in 1..n
SumTo(f, n) ==
  LET RECURSIVE S(_)
      S(i) == IF i > n THEN 0 ELSE f[i] + S(i + 1)
  IN S(1)

\* what performMutualElementComparison returns after the rounds steps
CollectSteps(steps) ==
  [leftProcessed |-> [i \in 1..Len(steps) |-> steps[i].left],
   rightProcessed |-> [i \in 1..Len(steps) |-> steps[i].right],
   summary |->
     [additions |-> SumTo([i \in 1..Len(steps) |-> steps[i].additions], Len(steps)),
      deletions |-> SumTo([i \in 1..Len(steps) |-> steps[i].deletions], Len(steps)),
      changes |-> SumTo([i \in 1..Len(steps) |-> steps[i].additions], Len(steps))
                  + SumTo([i \in 1..Len(steps) |-> steps[i].deletions], Len(steps))]]

performMutualElementComparison(leftElements, rightElements) ==
  CollectSteps([i \in 1..Max(Len(leftElements), Len(rightElements)) |->
                  ElementStep(leftElements, rightElements, i)])

\* the longest placeholder text shown in full (textComparison.js line 347)
PlaceholderTextMax == 50

\* the text of the span shown in an empty space
EmptySpaceText(element, verb) ==
  <<IF element.placeholderType = "table" THEN "table-icon"
    ELSE IF element.placeholderType = "image" THEN "image-icon" ELSE "text-icon",
    " [Empty space - ", element.placeholderType, verb>>
  \o SubSeq(element.placeholderText, 1, Min(PlaceholderTextMax, Len(element.placeholderText)))
  \o (IF Len(element.placeholderText) > PlaceholderTextMax THEN <<"...">> ELSE <<>>)
  \o <<"\"]">>

\* the node that applyProcessedElementsToDiv appends for a processed element
ProcessedNode(container, element) ==
  LET newElement ==
        IF element.element # 0 THEN container[element.element]
        ELSE IF element.placeholderType = "table" THEN Placeholder({"table-placeholder"}, "")
        ELSE IF element.placeholderType = "image" THEN Placeholder({"image-placeholder"}, "")
        ELSE TextElement(element.tagName, <<>>, PlainFmt)
      isTable == "isTable" \in DOMAIN element /\ element.isTable
      isImage == "isImage" \in DOMAIN element /\ element.isImage
      kindClasses(suffix) ==
        (IF isTable THEN {"git-table-" \o suffix} ELSE {})
        \cup (IF isImage THEN {"git-image-" \o suffix} ELSE {})
      withHtml(node) ==
        IF "processedHtml" \in DOMAIN element /\ element.processedHtml # <<>>
        THEN SetInnerHTML(node, element.processedHtml) ELSE node
      emptySpace(cls, verb) ==
        [kind |-> "text", tagName |-> newElement.tagName, fmt |-> PlainFmt,
         classList |-> newElement.classList \cup {"git-line-placeholder", cls},
         text |-> EmptySpaceText(element, verb),
         inner |-> <<[cls |-> "", text |-> EmptySpaceText(element, verb)]>>]
  IN CASE element.highlight = "added" ->
            withHtml([newElement EXCEPT !.classList = @ \cup {"git-line-added"} \cup kindClasses("added")])
       [] element.highlight = "removed" ->
            withHtml([newElement EXCEPT !.classList = @ \cup {"git-line-removed"} \cup kindClasses("removed")])
       [] element.highlight = "modified" ->
            withHtml([newElement EXCEPT !.classList = @ \cup {"git-line-modified"} \cup kindClasses("modified")])
       [] element.highlight = "empty-space-added" -> emptySpace("placeholder-added", " added: \"")
       [] element.highlight = "empty-space-removed" -> emptySpace("placeholder-removed", " removed: \"")
       [] OTHER -> withHtml(newElement)

\* applyProcessedElementsToDiv(container, processedElements): the new
\* content of the container
applyProcessedElementsToDiv(container, processedElements) ==
  [i \in 1..Len(processedElements) |-> ProcessedNode(container, processedElements[i])]

\* createInlineDiff(leftText, rightText)
createInlineDiff(leftText, rightText) ==
  LET diffs == diff_cleanupSemantic(diff_main(leftText, rightText))
  IN [i \in 1..Len(diffs) |->
        [cls |-> IF diffs[i][1] = 1 THEN "git-inline-added"
                 ELSE IF diffs[i][1] = -1 THEN "git-inline-removed" ELSE "",
         text |-> escapeHtml(diffs[i][2])]]

\* what generateDetailedReport of textComparison.js pushes for position i
ReportStep(leftElements, rightElements, i) ==
  LET hasLeft == i <= Len(leftElements)
      hasRight == i <= Len(rightElements)
      l == leftElements[i]
      r == rightElements[i]
      leftIs(f) == hasLeft /\ l[f]
      rightIs(f) == hasRight /\ r[f]
      none == [lines |-> <<>>, tables |-> <<>>, images |-> <<>>]
      plain(text) == <<[cls |-> "", text |-> escapeHtml(text)]>>
      span(cls, text) == <<[cls |-> cls, text |-> escapeHtml(text)]>>
  IN IF leftIs("isTable") \/ rightIs("isTable")
     THEN [none EXCEPT !.tables =
             IF leftIs("isTable") /\ rightIs("isTable")
             THEN LET tablesEqual == compareTableContent(l.html, r.html)
                  IN <<[table |-> i, status |-> IF tablesEqual THEN "UNCHANGED" ELSE "MODIFIED",
                        diffHtml |-> IF tablesEqual THEN plain(l.text)
                                     ELSE createInlineDiff(l.text, r.text)]>>
             ELSE IF leftIs("isTable")
             THEN <<[table |-> i, status |-> "REMOVED", diffHtml |-> span("git-inline-removed", l.text)]>>
             ELSE <<[table |-> i, status |-> "ADDED", diffHtml |-> span("git-inline-added", r.text)]>>]
     ELSE IF leftIs("isImage") \/ rightIs("isImage")
     THEN [none EXCEPT !.images =
             IF leftIs("isImage") /\ rightIs("isImage")
             THEN <<[index |-> i, status |-> IF l.html.src = r.html.src THEN "UNCHANGED" ELSE "MODIFIED"]>>
             ELSE IF leftIs("isImage") THEN <<[index |-> i, status |-> "REMOVED"]>>
             ELSE <<[index |-> i, status |-> "ADDED"]>>]
     ELSE [none EXCEPT !.lines =
             IF hasLeft /\ hasRight
             THEN (IF areTextsEqual(l.text, r.text)
                   THEN <<[v1 |-> ToString(i), v2 |-> ToString(i), status |-> "UNCHANGED",
                           diffHtml |-> plain(l.text), formatChanges |-> <<>>]>>
                   ELSE <<[v1 |-> ToString(i), v2 |-> ToString(i), status |-> "MODIFIED",
                           diffHtml |-> createInlineDiff(l.text, r.text),
                           formatChanges |-> <<"Content modified">>]>>)
             ELSE IF hasLeft
             THEN <<[v1 |-> ToString(i), v2 |-> "", status |-> "REMOVED",
                     diffHtml |-> span("git-inline-removed", l.text),
                     formatChanges |-> <<"Line removed">>]>>
             ELSE <<[v1 |-> "", v2 |-> ToString(i), status |-> "ADDED",
                     diffHtml |-> span("git-inline-added", r.text),
                     formatChanges |-> <<"Line added">>]>>]

\* the three lists of the report after the rounds steps
CollectReport(steps) ==
  [lines |-> Concat([i \in 1..Len(steps) |-> steps[i].lines]),
   tables |-> Concat([i \in 1..Len(steps) |-> steps[i].tables]),
   images |-> Concat([i \in 1..Len(steps) |-> steps[i].images])]

\* generateDetailedReport(leftElements, rightElements) of textComparison.js
generateDetailedReportMutual(leftElements, rightElements) ==
  CollectReport([i \in 1..Max(Len(leftElements), Len(rightElements)) |->
                   ReportStep(leftElements, rightElements, i)])

\* the end of performOptimizedMutualComparison: the processed elements c
\* are applied to the two containers and the result is put together
MutualResult(leftDiv, rightDiv, c, detailed) ==
  [leftDiffs |-> <<[type |-> "equal", content |-> applyProcessedElementsToDiv(leftDiv, c.leftProcessed)]>>,
   rightDiffs |-> <<[type |-> "equal", content |-> applyProcessedElementsToDiv(rightDiv, c.rightProcessed)]>>,
   summary |-> c.summary,
   detailed |-> detailed]

\* performOptimizedMutualComparison(leftHtml, rightHtml)
performOptimizedMutualComparison(leftHtml, rightHtml) ==
  MutualResult(htmlToDiv(leftHtml), htmlToDiv(rightHtml),
    performMutualElementComparison(extractAllElements(htmlToDiv(leftHtml)),
                                   extractAllElements(htmlToDiv(rightHtml))),
    generateDetailedReportMutual(extractAllElements(htmlToDiv(leftHtml)),
                                 extractAllElements(htmlToDiv(rightHtml))))

(***************************************************************************)
(* compareHtmlDocuments of src/unnamed/part_000, as a function: the result *)
(* of a call in a browser in which no stage throws.                        *)
(***************************************************************************)
\* the output of the fast path, of the check for a browser and of the catch
\* block: the two documents as they came in, no change counted
OriginalOutput(leftHtml, rightHtml) ==
  [leftDiffs |-> <<[type |-> "equal", content |-> leftHtml]>>,
   rightDiffs |-> <<[type |-> "equal", content |-> rightHtml]>>,
   summary |-> ZeroSummary,
   detailed |-> EmptyReport]

\* leftText.trim() === rightText.trim()
SamePlainText(leftHtml, rightHtml) ==
  trim(extractPlainText(leftHtml)) = trim(extractPlainText(rightHtml))

\* the mutant of the summary: changes counts the additions only
SumSummariesNoDeletions(summaries) ==
  LET additions == SumTo([i \in 1..Len(summaries) |-> summaries[i].additions], Len(summaries))
      deletions == SumTo([i \in 1..Len(summaries) |-> summaries[i].deletions], Len(summaries))
  IN [additions |-> additions, deletions |-> deletions, changes |-> additions]

\* the summary of the stages' summaries
SumSummaries(summaries) ==
  LET additions == SumTo([i \in 1..Len(summaries) |-> summaries[i].additions], Len(summaries))
      deletions == SumTo([i \in 1..Len(summaries) |-> summaries[i].deletions], Len(summaries))
  IN [additions |-> additions, deletions |-> deletions, changes |-> additions + deletions]

compareHtmlDocuments(leftHtml, rightHtml) ==
  IF SamePlainText(leftHtml, rightHtml) THEN OriginalOutput(leftHtml, rightHtml)
  ELSE LET b == applyMutualBlockComparison(leftHtml, rightHtml)
           i == applyMutualImageComparison(b.leftWithBlocks, b.rightWithBlocks)
           t == applyMutualTableComparison(i.leftWithImages, i.rightWithImages)
           w == applyMutualWordLevelComparison(t.leftWithTables, t.rightWithTables)
       IN [leftDiffs |-> <<[type |-> "equal", content |-> w.leftFinal]>>,
           rightDiffs |-> <<[type |-> "equal", content |-> w.rightFinal]>>,
           summary |-> SumSummaries(<<b.blockSummary, i.imageSummary, t.tableSummary, w.textSummary>>),
           detailed |-> generateDetailedReport(leftHtml, rightHtml)]

\* compareHtmlDocuments of src/src/utils/textComparison.js: the value its
\* promise resolves to when nothing throws
compareHtmlDocumentsAsync(leftHtml, rightHtml) ==
  IF SamePlainText(leftHtml, rightHtml) THEN OriginalOutput(leftHtml, rightHtml)
  ELSE performOptimizedMutualComparison(leftHtml, rightHtml)

(***************************************************************************)
(* The inputs of the model.                                                *)
(***************************************************************************)
\* "aaa" and three spellings of it that differ in case only, a text that is
\* similar to them but not equal, and the empty text
TextPool ==
  {<<>>,
   <<"a", "a", "a">>, <<"a", "a", "A">>, <<"a", "A", "A">>, <<"A", "A", "A">>,
   <<"a", " ", "a">>}

\* the tag and text of the blocks the block lists are made of
BlockPool ==
  {[tagName |-> "p", text |-> t] : t \in TextPool}
    \cup {[tagName |-> "h1", text |-> <<"a", "a", "a">>]}

RECURSIVE SeqsUpTo(_, _)
\* the sequences over S of length at most n
SeqsUpTo(S, n) ==
  IF n = 0 THEN {<<>>}
  ELSE LET shorter == SeqsUpTo(S, n - 1)
       IN shorter \cup {Append(s, x) : s \in {t \in shorter : Len(t) = n - 1}, x \in S}

\* the block array of a list of tagged texts
MakeBlocks(items) ==
  [i \in 1..Len(items) |->
     [tagName |-> items[i].tagName, text |-> items[i].text, index |-> i - 1]]

\* the blocks handed to alignBlocks: those of the pool and a paragraph that
\* is more similar to "a a" than "aaa" is
AlignPool ==
  BlockPool \cup {[tagName |-> "p", text |-> <<"a", " ", "a", "a">>]}

BlockLists == {MakeBlocks(items) : items \in SeqsUpTo(AlignPool, MaxBlocks)}

\* the largest number of stages that throw in one call
MaxFaults == 1

Bold == [PlainFmt EXCEPT !.hasBold = TRUE]

\* the elements the text documents are made of
TextNodes == {TextElement(b.tagName, b.text, PlainFmt) : b \in BlockPool}

\* the elements the structured documents are made of: images that differ
\* in src or in alt, tables with the same text in one cell or in two, with
\* another text and with the cell text in a paragraph, a table with a second
\* row, and a paragraph plain and bold
StructNodes ==
  {Image("s1", <<>>), Image("s2", <<>>), Image("s1", <<"a">>),
   Table(<<<< <<"a", "a", "a">> >>>>, FALSE),
   Table(<<<< <<"a", "a">>, <<"a">> >>>>, FALSE),
   Table(<<<< <<"a", " ", "a">> >>>>, TRUE),
   Table(<< << <<"a", "a", "a">> >>, << <<"a">> >> >>, FALSE),
   TextElement("p", <<"a", "a", "a">>, PlainFmt),
   TextElement("p", <<"a", "a", "a">>, Bold)}

TextDocs == SeqsUpTo(TextNodes, MaxBlocks)
StructDocs == SeqsUpTo(StructNodes, MaxBlocks)

\* the pairs of documents compared in a browser
DocPairs == (TextDocs \X TextDocs) \cup (StructDocs \X StructDocs)

\* the documents compared where there is no DOM, or no requestIdleCallback
SmallDocs == SeqsUpTo(StructNodes, 1)

\* the hosts: a browser with requestIdleCallback, a browser without it, and
\* a host with neither window nor document
Envs == {"browser", "legacy", "headless"}

(***************************************************************************)
(* State.                                                                  *)
(***************************************************************************)
VARIABLES
  entry,        \* the function that was called
  pc,           \* where the call stands
  env,          \* the host the call runs in
  leftText,     \* compareDocuments / getTextSimilarity: the two strings
  rightText,
  leftBlocks,   \* alignBlocks: the two block arrays
  rightBlocks,
  leftHtml,     \* compareHtmlDocuments: the two documents
  rightHtml,
  leftWork,     \* the two documents as annotated by the stages so far
  rightWork,
  summaries,    \* the {additions, deletions} of the stages so far
  failed,       \* the steps that threw
  path,         \* the return statement that was taken
  promise,      \* the state of the promise of the deferred comparison
  similarity,   \* the value getTextSimilarity returned
  alignment,    \* the value alignBlocks returned
  result,       \* the value compareDocuments / compareHtmlDocuments returned
  changeElements, \* UnifiedMiniMap: the elements of the two panes that match a change selector
  markers,      \* UnifiedMiniMap: the markers state
  currentChange, \* UnifiedMiniMap: the currentChange state
  documentProp, \* DocumentPreview: what the name document stands for in the component
  maxScroll,    \* DocumentPreview: scrollHeight - clientHeight of each pane
  scrollTop,    \* DocumentPreview: the scrollTop of each pane
  isScrolling,  \* DocumentPreview: the isScrolling flag of each pane's effect
  scrollEvents, \* the scroll events dispatched and not yet handled
  timers,       \* the number of pending setTimeout callbacks of each pane
  origin,       \* the pane the user scrolled last
  writes        \* the scrollTop assignments made to each pane since then

vars == <<entry, pc, env, leftText, rightText, leftBlocks, rightBlocks,
          leftHtml, rightHtml, leftWork, rightWork, summaries, failed, path,
          promise, similarity, alignment, result,
          changeElements, markers, currentChange, documentProp, maxScroll, scrollTop,
          isScrolling, scrollEvents, timers, origin, writes>>

htmlVars == <<env, leftHtml, rightHtml, leftWork, rightWork, summaries, failed, path, promise>>

miniMapVars == <<changeElements, markers, currentChange>>
scrollVars == <<documentProp, maxScroll, scrollTop, isScrolling, scrollEvents, timers, origin, writes>>

Panes == {"left", "right"}

\* no minimap is mounted
NoMiniMap ==
  /\ changeElements = <<>>
  /\ markers = <<>>
  /\ currentChange = 0

\* no preview pane is mounted
NoScroll ==
  /\ documentProp = "none"
  /\ maxScroll = [p \in Panes |-> 1]
  /\ scrollTop = [p \in Panes |-> 0]
  /\ isScrolling = [p \in Panes |-> FALSE]
  /\ scrollEvents = <<>>
  /\ timers = [p \in Panes |-> 0]
  /\ origin = "none"
  /\ writes = [p \in Panes |-> 0]

NoUi == NoMiniMap /\ NoScroll

NoResult == [none |-> TRUE]
NoRatio == [num |-> 0, den |-> 0]

\* no document comparison is under way
NoHtml ==
  /\ env = "browser"
  /\ leftHtml = <<>>
  /\ rightHtml = <<>>
  /\ leftWork = <<>>
  /\ rightWork = <<>>
  /\ summaries = <<>>
  /\ failed = {}
  /\ path = "none"
  /\ promise = "none"

InitText ==
  /\ entry \in {"compareDocuments", "getTextSimilarity"}
  /\ pc = "called"
  /\ leftText \in Strings
  /\ rightText \in Strings
  /\ leftBlocks = <<>>
  /\ rightBlocks = <<>>
  /\ NoHtml
  /\ similarity = NoRatio
  /\ NoUi
  /\ alignment = <<>>
  /\ result = NoResult

InitAlign ==
  /\ entry = "alignBlocks"
  /\ pc = "called"
  /\ leftText = <<>>
  /\ rightText = <<>>
  /\ leftBlocks \in BlockLists
  /\ rightBlocks \in BlockLists
  /\ NoHtml
  /\ similarity = NoRatio
  /\ NoUi
  /\ alignment = <<>>
  /\ result = NoResult

InitHtml ==
  /\ entry \in {"compareHtmlDocuments", "compareHtmlDocumentsAsync"}
  /\ pc = "called"
  /\ leftText = <<>>
  /\ rightText = <<>>
  /\ leftBlocks = <<>>
  /\ rightBlocks = <<>>
  /\ \/ /\ env = "browser"
        /\ \E pair \in DocPairs : leftHtml = pair[1] /\ rightHtml = pair[2]
     \/ env \in Envs \ {"browser"} /\ leftHtml \in SmallDocs /\ rightHtml \in SmallDocs
  /\ leftWork = leftHtml
  /\ rightWork = rightHtml
  /\ summaries = <<>>
  /\ failed = {}
  /\ path = "none"
  /\ promise = "none"
  /\ similarity = NoRatio
  /\ NoUi
  /\ alignment = <<>>
  /\ result = NoResult

CompareDocuments ==
  /\ entry = "compareDocuments"
  /\ pc = "called"
  /\ result' = compareDocuments(leftText, rightText)
  /\ pc' = "returned"
  /\ UNCHANGED <<entry, leftText, rightText, leftBlocks, rightBlocks, similarity, alignment>>
  /\ UNCHANGED <<htmlVars, miniMapVars, scrollVars>>

GetTextSimilarity ==
  /\ entry = "getTextSimilarity"
  /\ pc = "called"
  /\ similarity' = getTextSimilarity(leftText, rightText)
  /\ pc' = "returned"
  /\ UNCHANGED <<entry, leftText, rightText, leftBlocks, rightBlocks, alignment, result>>
  /\ UNCHANGED <<htmlVars, miniMapVars, scrollVars>>

AlignBlocks ==
  /\ entry = "alignBlocks"
  /\ pc = "called"
  /\ alignment' = alignBlocks(leftBlocks, rightBlocks)
  /\ pc' = "returned"
  /\ UNCHANGED <<entry, leftText, rightText, leftBlocks, rightBlocks, similarity, result>>
  /\ UNCHANGED <<htmlVars, miniMapVars, scrollVars>>

\* what a call of compareHtmlDocuments never changes
callVars == <<entry, env, leftText, rightText, leftBlocks, rightBlocks,
              leftHtml, rightHtml, similarity, alignment>>

\* the host has a document (and a window)
HasDom == env # "headless"

\* extractPlainText(html) throws a ReferenceError: html is not empty and
\* there is no document to create the div with
PlainTextThrows(html) == ~HasDom /\ html # <<>>

\* a step may throw as long as fewer than MaxFaults steps did
MayThrow(throws) == throws => Cardinality(failed) < MaxFaults

\* compareHtmlDocuments of part_000, from the call to the first stage
CompareHtmlDocuments ==
  /\ entry = "compareHtmlDocuments"
  /\ pc = "called"
  /\ IF PlainTextThrows(leftHtml) \/ PlainTextThrows(rightHtml)
     THEN /\ result' = OriginalOutput(leftHtml, rightHtml)
          /\ failed' = failed \cup {"extractPlainText"}
          /\ path' = "catch"
          /\ pc' = "returned"
     ELSE IF SamePlainText(leftHtml, rightHtml)
     THEN /\ result' = OriginalOutput(leftHtml, rightHtml)
          /\ path' = "identical"
          /\ pc' = "returned"
          /\ UNCHANGED failed
     ELSE IF ~HasDom
     THEN /\ result' = OriginalOutput(leftHtml, rightHtml)
          /\ path' = "no-document"
          /\ pc' = "returned"
          /\ UNCHANGED failed
     ELSE /\ pc' = "block"
          /\ UNCHANGED <<result, path, failed>>
  /\ UNCHANGED <<leftWork, rightWork, summaries, promise>>
  /\ UNCHANGED <<callVars, miniMapVars, scrollVars>>

NoChange == [additions |-> 0, deletions |-> 0]

\* the mutant of StageDone: a stage that throws still hands on what it had
\* marked and counted
StageDonePartial(stage, throws, left, right, summary, next) ==
  /\ leftWork' = left
  /\ rightWork' = right
  /\ summaries' = Append(summaries, summary)
  /\ failed' = (IF throws THEN failed \cup {stage} ELSE failed)
  /\ pc' = next
  /\ UNCHANGED <<result, path, promise>>
  /\ UNCHANGED <<callVars, miniMapVars, scrollVars>>

\* a stage is done: its two documents and its summary are handed on
StageDone(stage, throws, left, right, summary, next) ==
  /\ leftWork' = (IF throws THEN leftWork ELSE left)
  /\ rightWork' = (IF throws THEN rightWork ELSE right)
  /\ summaries' = Append(summaries, IF throws THEN NoChange ELSE summary)
  /\ failed' = (IF throws THEN failed \cup {stage} ELSE failed)
  /\ pc' = next
  /\ UNCHANGED <<result, path, promise>>
  /\ UNCHANGED <<callVars, miniMapVars, scrollVars>>

BlockComparison ==
  /\ entry = "compareHtmlDocuments"
  /\ pc = "block"
  /\ \E throws \in BOOLEAN, out \in {applyMutualBlockComparison(leftWork, rightWork)} :
       /\ MayThrow(throws)
       /\ StageDone("block", throws, out.leftWithBlocks, out.rightWithBlocks,
                       out.blockSummary, "image")

ImageComparison ==
  /\ entry = "compareHtmlDocuments"
  /\ pc = "image"
  /\ \E throws \in BOOLEAN, out \in {applyMutualImageComparison(leftWork, rightWork)} :
       /\ MayThrow(throws)
       /\ StageDone("image", throws, out.leftWithImages, out.rightWithImages,
                       out.imageSummary, "table")

TableComparison ==
  /\ entry = "compareHtmlDocuments"
  /\ pc = "table"
  /\ \E throws \in BOOLEAN, out \in {applyMutualTableComparison(leftWork, rightWork)} :
       /\ MayThrow(throws)
       /\ StageDone("table", throws, out.leftWithTables, out.rightWithTables,
                       out.tableSummary, "word")

WordLevelComparison ==
  /\ entry = "compareHtmlDocuments"
  /\ pc = "word"
  /\ \E throws \in BOOLEAN, out \in {applyMutualWordLevelComparison(leftWork, rightWork)} :
       /\ MayThrow(throws)
       /\ StageDone("word", throws, out.leftFinal, out.rightFinal,
                       out.textSummary, "report")

\* the summary, the detailed report and the return of compareHtmlDocuments
DetailedReport ==
  /\ entry = "compareHtmlDocuments"
  /\ pc = "report"
  /\ \E throws \in BOOLEAN :
       /\ MayThrow(throws)
       /\ result' = [leftDiffs |-> <<[type |-> "equal", content |-> leftWork]>>,
                     rightDiffs |-> <<[type |-> "equal", content |-> rightWork]>>,
                     summary |-> SumSummaries(summaries),
                     detailed |-> IF throws THEN EmptyReport
                                  ELSE generateDetailedReport(leftHtml, rightHtml)]
       /\ failed' = (IF throws THEN failed \cup {"report"} ELSE failed)
  /\ path' = "compared"
  /\ pc' = "returned"
  /\ UNCHANGED <<leftWork, rightWork, summaries, promise>>
  /\ UNCHANGED <<callVars, miniMapVars, scrollVars>>

\* compareHtmlDocuments of textComparison.js: the executor of the promise.
\* Reading window where there is none throws, which rejects the promise.
CompareHtmlDocumentsAsync ==
  /\ entry = "compareHtmlDocumentsAsync"
  /\ pc = "called"
  /\ IF ~HasDom
     THEN /\ promise' = "rejected"
          /\ failed' = failed \cup {"window"}
          /\ pc' = "returned"
     ELSE /\ promise' = "pending"
          /\ pc' = IF env = "browser" THEN "idle-callback" ELSE "timeout"
          /\ UNCHANGED failed
  /\ UNCHANGED <<leftWork, rightWork, summaries, path, result>>
  /\ UNCHANGED <<callVars, miniMapVars, scrollVars>>

\* performComparison, run by requestIdleCallback or by setTimeout
PerformComparison ==
  /\ entry = "compareHtmlDocumentsAsync"
  /\ pc \in {"idle-callback", "timeout"}
  /\ promise = "pending"
  /\ IF SamePlainText(leftHtml, rightHtml)
     THEN /\ result' = OriginalOutput(leftHtml, rightHtml)
          /\ path' = "identical"
          /\ UNCHANGED <<failed, leftWork, rightWork>>
     ELSE \E throws \in {"none", "comparison", "report"},
             out \in {performOptimizedMutualComparison(leftHtml, rightHtml)} :
            /\ MayThrow(throws # "none")
            /\ result' = (IF throws = "comparison" THEN OriginalOutput(leftHtml, rightHtml)
                          ELSE IF throws = "report" THEN [out EXCEPT !.detailed = EmptyReport]
                          ELSE out)
            /\ leftWork' = (IF throws = "comparison" THEN leftWork ELSE out.leftDiffs[1].content)
            /\ rightWork' = (IF throws = "comparison" THEN rightWork ELSE out.rightDiffs[1].content)
            /\ failed' = (IF throws = "none" THEN failed ELSE failed \cup {throws})
            /\ path' = (IF throws = "comparison" THEN "catch" ELSE "compared")
  /\ promise' = "resolved"
  /\ pc' = "returned"
  /\ UNCHANGED summaries
  /\ UNCHANGED <<callVars, miniMapVars, scrollVars>>

NextText == CompareDocuments \/ GetTextSimilarity
SpecText == InitText /\ [][NextText]_vars

NextAlign == AlignBlocks
SpecAlign == InitAlign /\ [][NextAlign]_vars

NextHtml ==
  \/ CompareHtmlDocuments
  \/ BlockComparison
  \/ ImageComparison
  \/ TableComparison
  \/ WordLevelComparison
  \/ DetailedReport
  \/ CompareHtmlDocumentsAsync
  \/ PerformComparison
SpecHtml == InitHtml /\ [][NextHtml]_vars

\* every entry point of the comparison engine
Init == InitText \/ InitAlign \/ InitHtml
Next == NextText \/ NextAlign \/ NextHtml
Spec == Init /\ [][Next]_vars


\* the deferred compareHtmlDocuments of textComparison.js alone: a call runs
\* the executor of its promise at once, and the host runs a callback it was
\* handed (requestIdleCallback with a timeout, setTimeout)
InitDeferred == InitHtml /\ entry = "compareHtmlDocumentsAsync"
NextDeferred == CompareHtmlDocumentsAsync \/ PerformComparison
SpecDeferred ==
  /\ InitDeferred
  /\ [][NextDeferred]_vars
  /\ WF_vars(CompareHtmlDocumentsAsync)
  /\ WF_vars(PerformComparison)

\* block extraction alone: the documents hold paragraphs, images, tables and
\* block elements nested in one another
ExtractNodes ==
  { TextElement("p", <<"a", "a", "a">>, PlainFmt),
    TextElement("p", <<>>, PlainFmt),
    Image("s1", <<>>),
    Table(<< << <<"a">> >> >>, FALSE),
    Table(<< << <<"a">> >> >>, TRUE),
    Nested("div", TextElement("p", <<"a", "a", "a">>, PlainFmt)),
    Nested("div", TextElement("div", <<"a", "a", "a">>, PlainFmt)) }

ExtractDocs == SeqsUpTo(ExtractNodes, MaxBlocks)

InitExtract ==
  /\ entry \in {"extractBlocks", "extractAllElements"}
  /\ pc = "called"
  /\ leftText = <<>>
  /\ rightText = <<>>
  /\ leftBlocks = <<>>
  /\ rightBlocks = <<>>
  /\ env = "browser"
  /\ leftHtml \in ExtractDocs
  /\ rightHtml = <<>>
  /\ leftWork = <<>>
  /\ rightWork = <<>>
  /\ summaries = <<>>
  /\ failed = {}
  /\ path = "none"
  /\ promise = "none"
  /\ similarity = NoRatio
  /\ NoUi
  /\ alignment = <<>>
  /\ result = NoResult

\* extractBlocks(container) of part_000
ExtractBlocks ==
  /\ entry = "extractBlocks"
  /\ pc = "called"
  /\ leftBlocks' = extractBlocks(htmlToDiv(leftHtml))
  /\ pc' = "returned"
  /\ UNCHANGED <<entry, leftText, rightText, rightBlocks, similarity, alignment, result>>
  /\ UNCHANGED <<htmlVars, miniMapVars, scrollVars>>

\* extractAllElements(container) of textComparison.js
ExtractAllElements ==
  /\ entry = "extractAllElements"
  /\ pc = "called"
  /\ leftBlocks' = extractAllElements(htmlToDiv(leftHtml))
  /\ pc' = "returned"
  /\ UNCHANGED <<entry, leftText, rightText, rightBlocks, similarity, alignment, result>>
  /\ UNCHANGED <<htmlVars, miniMapVars, scrollVars>>

NextExtract == ExtractBlocks \/ ExtractAllElements
SpecExtract == InitExtract /\ [][NextExtract]_vars

\* compareFormat alone, on the features of two lines of every formatting
Formats ==
  [hasBold : BOOLEAN, hasItalic : BOOLEAN, hasUnderline : BOOLEAN,
   fontSize : {"", "12px", "14px"}, textAlign : {"", "center"}]

InitFormat ==
  /\ entry = "compareFormat"
  /\ pc = "called"
  /\ leftText = <<>>
  /\ rightText = <<>>
  /\ leftBlocks = <<>>
  /\ rightBlocks = <<>>
  /\ env = "browser"
  /\ \E fa \in Formats : leftHtml = <<TextElement("p", <<"a">>, fa)>>
  /\ \E fb \in Formats : rightHtml = <<TextElement("p", <<"a">>, fb)>>
  /\ leftWork = <<>>
  /\ rightWork = <<>>
  /\ summaries = <<>>
  /\ failed = {}
  /\ path = "none"
  /\ promise = "none"
  /\ similarity = NoRatio
  /\ NoUi
  /\ alignment = <<>>
  /\ result = NoResult

\* compareFormat(l.fmt, r.fmt) on the first line of each document
CompareFormat ==
  /\ entry = "compareFormat"
  /\ pc = "called"
  /\ result' = [formatChanges |->
                  compareFormat(collectBlockLinesWithFormat(leftHtml)[1].fmt,
                                collectBlockLinesWithFormat(rightHtml)[1].fmt)]
  /\ pc' = "returned"
  /\ UNCHANGED <<entry, leftText, rightText, leftBlocks, rightBlocks, similarity, alignment>>
  /\ UNCHANGED <<htmlVars, miniMapVars, scrollVars>>

NextFormat == CompareFormat
SpecFormat == InitFormat /\ [][NextFormat]_vars

\* performMutualElementComparison alone, on the element lists of two
\* documents
ElementLists == {extractAllElements(d) : d \in TextDocs \cup StructDocs}

InitMutual ==
  /\ entry = "performMutualElementComparison"
  /\ pc = "called"
  /\ leftText = <<>>
  /\ rightText = <<>>
  /\ leftBlocks \in ElementLists
  /\ rightBlocks \in ElementLists
  /\ NoHtml
  /\ similarity = NoRatio
  /\ NoUi
  /\ alignment = <<>>
  /\ result = NoResult

PerformMutualElementComparison ==
  /\ entry = "performMutualElementComparison"
  /\ pc = "called"
  /\ result' = performMutualElementComparison(leftBlocks, rightBlocks)
  /\ pc' = "returned"
  /\ UNCHANGED <<entry, leftText, rightText, leftBlocks, rightBlocks, similarity, alignment>>
  /\ UNCHANGED <<htmlVars, miniMapVars, scrollVars>>

NextMutual == PerformMutualElementComparison
SpecMutual == InitMutual /\ [][NextMutual]_vars

(***************************************************************************)
(* UnifiedMiniMap of src/components/MiniMap.jsx.  A ratio is counted in    *)
(* steps of 0.005 of the height of a pane.                                 *)
(***************************************************************************)
\* the threshold 0.01 of collectUnifiedMarkers, in steps of 0.005
threshold == 2

Abs(n) == IF n < 0 THEN 0 - n ELSE n

\* the priority that collectUnifiedMarkers gives an element, by its classes
priorityOf(classList) ==
  IF "git-table-added" \in classList THEN 5
  ELSE IF "git-table-removed" \in classList THEN 5
  ELSE IF "git-table-modified" \in classList THEN 4
  ELSE IF "git-image-added" \in classList THEN 5
  ELSE IF "git-image-removed" \in classList THEN 5
  ELSE IF "git-image-modified" \in classList THEN 4
  ELSE IF classList \cap {"git-line-added", "git-inline-added", "placeholder-added"} # {} THEN 3
  ELSE IF classList \cap {"git-line-removed", "git-inline-removed", "placeholder-removed"} # {} THEN 3
  ELSE IF "git-line-modified" \in classList THEN 2
  ELSE IF "git-line-placeholder" \in classList THEN 4
  ELSE 0

\* the marker pushed to allMarkers for the k-th matched element
MarkerOf(elements, k) ==
  [ratio |-> elements[k].ratio, side |-> elements[k].side, element |-> k,
   priority |-> priorityOf(elements[k].classList), unified |-> FALSE, elements |-> <<>>]

RECURSIVE InsertByRatio(_, _)
InsertByRatio(s, x) ==
  IF s = <<>> THEN <<x>>
  ELSE IF Head(s).ratio - x.ratio <= 0
       THEN <<Head(s)>> \o InsertByRatio(Tail(s), x)
       ELSE <<x>> \o s

RECURSIVE SortByRatio(_)
\* allMarkers.sort((a, b) => a.ratio - b.ratio), a stable sort
SortByRatio(s) ==
  IF s = <<>> THEN <<>>
  ELSE InsertByRatio(SortByRatio(SubSeq(s, 1, Len(s) - 1)), s[Len(s)])

\* unified.find(m => Math.abs(m.ratio - marker.ratio) <= threshold): the
\* index of the first such marker, 0 when there is none
FindExisting(unified, marker) ==
  findIndex({i \in 1..Len(unified) : Abs(unified[i].ratio - marker.ratio) <= threshold})

\* one round of sorted.forEach in collectUnifiedMarkers
UnifyStep(unified, marker) ==
  LET existing == FindExisting(unified, marker)
  IN IF existing = 0
     THEN Append(unified, [marker EXCEPT !.unified = TRUE, !.elements = <<marker.element>>])
     ELSE IF marker.priority > unified[existing].priority
     THEN [unified EXCEPT ![existing] =
             [marker EXCEPT !.unified = TRUE,
                            !.elements = <<unified[existing].element, marker.element>>]]
     ELSE [unified EXCEPT ![existing].elements = Append(@, marker.element)]

RECURSIVE UnifyLoop(_, _, _)
UnifyLoop(sorted, k, unified) ==
  IF k > Len(sorted) THEN unified
  ELSE UnifyLoop(sorted, k + 1, UnifyStep(unified, sorted[k]))

\* collectUnifiedMarkers(): elements are the elements of the left pane and
\* then of the right pane that match a change selector
collectUnifiedMarkers(elements) ==
  UnifyLoop(SortByRatio([k \in 1..Len(elements) |-> MarkerOf(elements, k)]), 1, <<>>)

\* markers.reduce of handleMinimapClick: the index of the first marker at
\* the least distance from the click, 0 when there is no marker
ClosestMarker(ms, clickRatio) ==
  findIndex({i \in 1..Len(ms) :
               \A j \in 1..Len(ms) :
                 Abs(ms[i].ratio - clickRatio) <= Abs(ms[j].ratio - clickRatio)})

MaxElements == 3

\* the changed elements a pane can hold: a modified line, an added line and
\* an added table, at places 0.005 and more apart
ChangeElementPool ==
  [ratio : {0, 1, 2, 5}, side : Panes,
   classList : {{"git-line-modified"}, {"git-line-added"}, {"git-table-added"}}]

\* querySelectorAll runs over the left pane first
LeftBeforeRight(elements) ==
  \A j, k \in 1..Len(elements) :
    j < k /\ elements[j].side = "right" => elements[k].side = "right"

ChangeElementLists ==
  {elements \in SeqsUpTo(ChangeElementPool, MaxElements) : LeftBeforeRight(elements)}

\* the contents of the panes while the user navigates: no change, and one
\* to three changes far apart
NavigationContents ==
  {[k \in 1..n |-> [ratio |-> 5 * k, side |-> "left", classList |-> {cls}]] :
     n \in 0..MaxElements, cls \in {"git-line-added", "git-table-added"}}

compareVars ==
  <<entry, pc, leftText, rightText, leftBlocks, rightBlocks, similarity, alignment, result>>

\* component is mounted and no comparison function is running
Mounted(component) ==
  /\ entry = component
  /\ pc = "mounted"
  /\ leftText = <<>>
  /\ rightText = <<>>
  /\ leftBlocks = <<>>
  /\ rightBlocks = <<>>
  /\ NoHtml
  /\ similarity = NoRatio
  /\ alignment = <<>>
  /\ result = NoResult

\* useState([]) and useState(0); the panes hold any of the contents
InitMiniMap ==
  /\ Mounted("UnifiedMiniMap")
  /\ changeElements \in NavigationContents
  /\ markers = <<>>
  /\ currentChange = 0
  /\ NoScroll

\* the mutation observer saw the content of a pane change: the markers are
\* out of date until the timer runs refreshAll
ContentChange ==
  /\ entry = "UnifiedMiniMap"
  /\ changeElements' \in NavigationContents
  /\ pc' = "mounted"
  /\ UNCHANGED <<markers, currentChange>>
  /\ UNCHANGED <<callVars, similarity, alignment, result, htmlVars, scrollVars>>

\* refreshAll: setMarkers(collectUnifiedMarkers())
RefreshAll ==
  /\ entry = "UnifiedMiniMap"
  /\ markers' = collectUnifiedMarkers(changeElements)
  /\ pc' = "refreshed"
  /\ UNCHANGED <<changeElements, currentChange>>
  /\ UNCHANGED <<callVars, similarity, alignment, result, htmlVars, scrollVars>>

\* navigateToNext
NavigateToNext ==
  /\ entry = "UnifiedMiniMap"
  /\ Len(markers) # 0
  /\ currentChange' = (currentChange + 1) % Len(markers)
  /\ UNCHANGED <<changeElements, markers>>
  /\ UNCHANGED <<compareVars, htmlVars, scrollVars>>

\* navigateToPrevious: the state is set before markers[prevIndex] is read
NavigateToPrevious ==
  /\ entry = "UnifiedMiniMap"
  /\ Len(markers) # 0
  /\ currentChange' = (IF currentChange = 0 THEN Len(markers) - 1 ELSE currentChange - 1)
  /\ UNCHANGED <<changeElements, markers>>
  /\ UNCHANGED <<compareVars, htmlVars, scrollVars>>

\* handleMinimapClick at clickRatio: a marker closer than 0.03 is selected
HandleMinimapClick ==
  /\ entry = "UnifiedMiniMap"
  /\ \E clickRatio \in {0, 5, 10, 15} :
       currentChange' =
         (IF ClosestMarker(markers, clickRatio) # 0
             /\ Abs(markers[ClosestMarker(markers, clickRatio)].ratio - clickRatio) < 6
          THEN ClosestMarker(markers, clickRatio) - 1
          ELSE currentChange)
  /\ UNCHANGED <<changeElements, markers>>
  /\ UNCHANGED <<compareVars, htmlVars, scrollVars>>

\* resetView
ResetView ==
  /\ entry = "UnifiedMiniMap"
  /\ currentChange' = 0
  /\ UNCHANGED <<changeElements, markers>>
  /\ UNCHANGED <<compareVars, htmlVars, scrollVars>>

NextMiniMap ==
  \/ ContentChange
  \/ RefreshAll
  \/ NavigateToNext
  \/ NavigateToPrevious
  \/ HandleMinimapClick
  \/ ResetView

SpecMiniMap == InitMiniMap /\ [][NextMiniMap]_vars

\* collectUnifiedMarkers alone, on every content of the panes
InitMarkers ==
  /\ Mounted("UnifiedMiniMap")
  /\ changeElements \in ChangeElementLists
  /\ markers = <<>>
  /\ currentChange = 0
  /\ NoScroll

NextMarkers == RefreshAll
SpecMarkers == InitMarkers /\ [][NextMarkers]_vars

(***************************************************************************)
(* The scroll synchronisation of src/components/DocumentPreview.jsx: two   *)
(* instances of the component, one per pane, each with its own handler and *)
(* its own isScrolling.                                                    *)
(***************************************************************************)
MaxScroll == 3
MaxWrites == 3

\* sourceId.replace('left', 'right') / sourceId.replace('right', 'left')
TargetOf(pane) == IF pane = "left" THEN "right" ELSE "left"

\* Math.round(targetMaxScroll * (sourceScrollTop / sourceMaxScroll))
targetScrollTop(sourceScrollTop, sourceMaxScroll, targetMaxScroll) ==
  (2 * targetMaxScroll * sourceScrollTop + sourceMaxScroll) \div (2 * sourceMaxScroll)

\* inside the component the name document is the prop of that name: a
\* document record, or undefined, neither of which has getElementById; the
\* caller is not part of the sources, so a prop that is the DOM document is
\* kept as a third case
DocumentProps == {"record", "undefined", "dom"}

HasGetElementById == documentProp = "dom"

\* both panes are mounted and at the top
InitScroll ==
  /\ Mounted("DocumentPreview")
  /\ NoMiniMap
  /\ documentProp \in DocumentProps
  /\ maxScroll \in [Panes -> 1..MaxScroll]
  /\ scrollTop = [p \in Panes |-> 0]
  /\ isScrolling = [p \in Panes |-> FALSE]
  /\ scrollEvents = <<>>
  /\ timers = [p \in Panes |-> 0]
  /\ origin = "none"
  /\ writes = [p \in Panes |-> 0]

\* the user scrolls a pane to another position while no scroll event is
\* pending; the browser dispatches a scroll event to the pane
UserScroll ==
  /\ entry = "DocumentPreview"
  /\ scrollEvents = <<>>
  /\ \E p \in Panes :
       \E top \in 0..maxScroll[p] :
         /\ top # scrollTop[p]
         /\ scrollTop' = [scrollTop EXCEPT ![p] = top]
         /\ scrollEvents' = <<p>>
         /\ origin' = p
  /\ writes' = [p \in Panes |-> 0]
  /\ UNCHANGED <<documentProp, maxScroll, isScrolling, timers>>
  /\ UNCHANGED <<compareVars, htmlVars, miniMapVars>>

\* handleScroll of the pane the first pending event is for
HandleScroll ==
  /\ entry = "DocumentPreview"
  /\ scrollEvents # <<>>
  /\ IF isScrolling[Head(scrollEvents)] \/ ~HasGetElementById
     THEN /\ scrollEvents' = Tail(scrollEvents)
          /\ UNCHANGED <<scrollTop, isScrolling, timers, writes>>
     ELSE \E source \in {Head(scrollEvents)} :
          \E top \in {targetScrollTop(scrollTop[source], maxScroll[source],
                                      maxScroll[TargetOf(source)])} :
            /\ isScrolling' = [isScrolling EXCEPT ![source] = TRUE]
            /\ scrollTop' = [scrollTop EXCEPT ![TargetOf(source)] = top]
            /\ scrollEvents' = Tail(scrollEvents)
                 \o (IF top # scrollTop[TargetOf(source)] THEN <<TargetOf(source)>> ELSE <<>>)
            /\ timers' = [timers EXCEPT ![source] = @ + 1]
            /\ writes' = [writes EXCEPT ![TargetOf(source)] = Min(@ + 1, MaxWrites)]
  /\ UNCHANGED <<documentProp, maxScroll, origin>>
  /\ UNCHANGED <<compareVars, htmlVars, miniMapVars>>

\* the callback of setTimeout(..., 50) of a pane
TimerFires ==
  /\ entry = "DocumentPreview"
  /\ \E p \in Panes :
       /\ timers[p] > 0
       /\ timers' = [timers EXCEPT ![p] = @ - 1]
       /\ isScrolling' = [isScrolling EXCEPT ![p] = FALSE]
  /\ UNCHANGED <<documentProp, maxScroll, scrollTop, scrollEvents, origin, writes>>
  /\ UNCHANGED <<compareVars, htmlVars, miniMapVars>>

NextScroll == UserScroll \/ HandleScroll \/ TimerFires

\* every dispatched event is handled and every timer fires
SpecScroll ==
  /\ InitScroll
  /\ [][NextScroll]_vars
  /\ WF_vars(HandleScroll)
  /\ WF_vars(TimerFires)
(***************************************************************************)
(* Claims on alignBlocks (specification SpecAlign).                        *)
(***************************************************************************)
Returned(e) == entry = e /\ pc = "returned"

Entries == DOMAIN alignment
HasType(t) == \E k \in Entries : alignment[k].type = t

\* C1: the alignment returned by alignBlocks covers every left block and
\* every right block exactly once: each left block is the left of exactly
\* one entry, each right block is the right of exactly one entry, so no
\* right block is matched to two left blocks.
C1_CoversEachBlockOnce ==
  Returned("alignBlocks") =>
    /\ \A i \in DOMAIN leftBlocks :
         Cardinality({k \in Entries : alignment[k].left = leftBlocks[i]}) = 1
    /\ \A j \in DOMAIN rightBlocks :
         Cardinality({k \in Entries : alignment[k].right = rightBlocks[j]}) = 1
    /\ Cardinality({k \in Entries : ~IsNull(alignment[k].left)}) = Len(leftBlocks)
    /\ Cardinality({k \in Entries : ~IsNull(alignment[k].right)}) = Len(rightBlocks)

\* an alignment with an exact match and a fuzzy match of two blocks a side
C1_Witness ==
  /\ Returned("alignBlocks")
  /\ Len(leftBlocks) = 2 /\ Len(rightBlocks) = 2
  /\ HasType("equal") /\ HasType("modified")

\* C2: in every entry of the alignment exactly one of left/right is null if
\* and only if the type is 'added' or 'removed' (left null for 'added',
\* right null for 'removed'); 'equal' and 'modified' entries have both.
C2_NullIffAddedOrRemoved ==
  Returned("alignBlocks") =>
    \A k \in Entries :
      LET a == alignment[k]
      IN /\ a.type \in {"equal", "modified", "added", "removed"}
         /\ (IsNull(a.left) # IsNull(a.right)) <=> a.type \in {"added", "removed"}
         /\ a.type = "added" => IsNull(a.left) /\ ~IsNull(a.right)
         /\ a.type = "removed" => ~IsNull(a.left) /\ IsNull(a.right)
         /\ a.type \in {"equal", "modified"} => ~IsNull(a.left) /\ ~IsNull(a.right)

\* an alignment with a block left over on each side
C2_Witness ==
  /\ Returned("alignBlocks")
  /\ HasType("added") /\ HasType("removed") /\ HasType("equal")

LeftOrigin(k) == ~IsNull(alignment[k].left)
HasRight(k) == ~IsNull(alignment[k].right)

LeftIndexIncreasing ==
  \A i, j \in Entries :
    i < j /\ LeftOrigin(i) /\ LeftOrigin(j) =>
      alignment[i].left.index < alignment[j].left.index

LeftOriginFirstAtTie ==
  \A i, j \in Entries :
    i < j /\ alignment[i].type = "added" /\ LeftOrigin(j) =>
      alignment[i].right.index # alignment[j].left.index

\* C3 as stated: the alignment is ordered by position index: left blocks in
\* increasing left index, right blocks in increasing right index, and at
\* the same position index a left-origin entry before an 'added' entry.
C3_OrderedBothSides ==
  Returned("alignBlocks") =>
    /\ LeftIndexIncreasing
    /\ \A i, j \in Entries :
         i < j /\ HasRight(i) /\ HasRight(j) =>
           alignment[i].right.index < alignment[j].right.index
    /\ LeftOriginFirstAtTie

\* C3 as amended: the alignment is ordered by the position key of its
\* entries (the left index when the entry has a left block, else the right
\* index): keys never decrease, left blocks occur in increasing left index,
\* the right-only 'added' entries occur in increasing right index, and at
\* the same key a left-origin entry comes before an 'added' entry.  (The
\* right blocks of matched entries follow their left blocks and may be out
\* of right order.)
C3_OrderedByKey ==
  Returned("alignBlocks") =>
    /\ \A i, j \in Entries : i < j => SortKey(alignment[i]) <= SortKey(alignment[j])
    /\ LeftIndexIncreasing
    /\ \A i, j \in Entries :
         i < j /\ alignment[i].type = "added" /\ alignment[j].type = "added" =>
           alignment[i].right.index < alignment[j].right.index
    /\ LeftOriginFirstAtTie

\* a removed block and an added block at the same position index, side by
\* side in the alignment
C3_Witness ==
  /\ Returned("alignBlocks")
  /\ \E i, j \in Entries :
       /\ j = i + 1
       /\ alignment[i].type = "removed" /\ alignment[j].type = "added"
       /\ alignment[i].left.index = alignment[j].right.index

(***************************************************************************)
(* Claims on compareDocuments and getTextSimilarity (SpecText).            *)
(***************************************************************************)
SegmentTypes(diffs) == {diffs[i].type : i \in DOMAIN diffs}

\* C6: round trip of compareDocuments: for all strings a and b, the contents
\* of leftDiffs joined in order are a, the contents of rightDiffs joined in
\* order are b, leftDiffs holds no 'insert' segment and rightDiffs no
\* 'delete' segment.
C6_RoundTrip ==
  Returned("compareDocuments") =>
    /\ renderHtmlDifferences(result.leftDiffs) = leftText
    /\ renderHtmlDifferences(result.rightDiffs) = rightText
    /\ SegmentTypes(result.leftDiffs) \subseteq {"equal", "delete"}
    /\ SegmentTypes(result.rightDiffs) \subseteq {"equal", "insert"}

\* a diff with unchanged, deleted and inserted text
C6_Witness ==
  /\ Returned("compareDocuments")
  /\ SegmentTypes(result.leftDiffs) = {"equal", "delete"}
  /\ SegmentTypes(result.rightDiffs) = {"equal", "insert"}

\* C7: getTextSimilarity(a, b) lies in [0, 1]; it is 1 when both texts are
\* empty and for two equal non-empty texts, 0 when exactly one is empty, and
\* otherwise the summed length of the equal spans of the diff divided by
\* max(len(a), len(b)).
C7_SimilarityBounds ==
  Returned("getTextSimilarity") =>
    /\ similarity.den > 0
    /\ 0 <= similarity.num /\ similarity.num <= similarity.den
    /\ leftText = <<>> /\ rightText = <<>> => RatioIsOne(similarity)
    /\ leftText = rightText /\ leftText # <<>> => RatioIsOne(similarity)
    /\ (leftText = <<>>) # (rightText = <<>>) => similarity.num = 0
    /\ leftText # <<>> /\ rightText # <<>> =>
         similarity.num * Max(Len(leftText), Len(rightText))
           = UnchangedLength(diff_main(leftText, rightText)) * similarity.den

\* two different texts with something in common: a similarity strictly
\* between 0 and 1
C7_Witness ==
  /\ Returned("getTextSimilarity")
  /\ 0 < similarity.num /\ similarity.num < similarity.den

(***************************************************************************)
(* Claims on compareHtmlDocuments and on the engine as a whole (Spec).     *)
(***************************************************************************)
HtmlEntries == {"compareHtmlDocuments", "compareHtmlDocumentsAsync"}

\* a call of one of the two compareHtmlDocuments is over
ReturnedHtml == entry \in HtmlEntries /\ pc = "returned"

AllEqual(entries) == \A k \in DOMAIN entries : entries[k].type = "equal"

\* C4: identity: alignBlocks(X, X) yields only 'equal' entries for every
\* block list X, repeated texts and empty blocks included, and a document
\* compared with itself has the summary {additions: 0, deletions: 0,
\* changes: 0}; this holds of the result of compareHtmlDocuments and of each
\* of the comparisons behind its test for identical documents.
C4_Identity ==
  /\ Returned("alignBlocks") /\ leftBlocks = rightBlocks =>
       /\ AllEqual(alignment)
       /\ Len(alignment) = Len(leftBlocks)
  /\ entry \in HtmlEntries /\ leftHtml = rightHtml =>
       /\ result # NoResult => result.summary = ZeroSummary
       /\ pc = "called" =>
            /\ AllEqual(alignBlocks(extractBlocks(leftHtml), extractBlocks(rightHtml)))
            /\ performMutualElementComparison(extractAllElements(leftHtml),
                                              extractAllElements(rightHtml)).summary
                 = ZeroSummary

\* a list of two blocks with the same text, aligned with itself
C4_Witness ==
  /\ Returned("alignBlocks")
  /\ leftBlocks = rightBlocks
  /\ Len(leftBlocks) = 2
  /\ leftBlocks[1].text = leftBlocks[2].text
  /\ AllEqual(alignment)

\* the number of entries of an alignment that pair two blocks
Matched(entries) ==
  Cardinality({k \in DOMAIN entries : ~IsNull(entries[k].left) /\ ~IsNull(entries[k].right)})

\* the summary s and the summary of the comparison the other way round
\* mirror each other
Mirrored(s, reversed) ==
  s.additions = reversed.deletions /\ s.deletions = reversed.additions

\* C5: symmetry of counts: the additions of comparing (A, B) are the
\* deletions of comparing (B, A) and the deletions of (A, B) the additions of
\* (B, A), and alignBlocks matches as many blocks in one direction as in the
\* other.  Calls in which a step threw are left out.
C5_SymmetricCounts ==
  /\ Returned("alignBlocks") =>
       Matched(alignment) = Matched(alignBlocks(rightBlocks, leftBlocks))
  /\ ReturnedHtml /\ failed = {} /\ entry = "compareHtmlDocumentsAsync" =>
       Mirrored(result.summary, compareHtmlDocumentsAsync(rightHtml, leftHtml).summary)
  /\ ReturnedHtml /\ failed = {} /\ entry = "compareHtmlDocuments" =>
       Mirrored(result.summary, compareHtmlDocuments(rightHtml, leftHtml).summary)

\* C8: every result of compareDocuments and of compareHtmlDocuments, on the
\* fast path, the normal path, the degraded path and when stages fail, has
\* summary.changes = summary.additions + summary.deletions with neither
\* counter negative.
C8_ChangesIsSum ==
  result # NoResult =>
    /\ result.summary.changes = result.summary.additions + result.summary.deletions
    /\ result.summary.additions >= 0
    /\ result.summary.deletions >= 0

\* a comparison in which a stage threw and the others counted both
\* additions and deletions
C8_Witness ==
  /\ ReturnedHtml
  /\ path = "compared"
  /\ failed # {}
  /\ result.summary.additions > 0
  /\ result.summary.deletions > 0
  /\ result.summary.additions # result.summary.deletions

\* the {src, alt} of the images of a document, in order
ImagesOf(html) ==
  [k \in 1..Len(PositionsOf(html, "img")) |->
     [src |-> html[PositionsOf(html, "img")[k]].src,
      alt |-> html[PositionsOf(html, "img")[k]].alt]]

\* the cell texts of the tables of a document, table by table, row by row
TablesOf(html) ==
  [k \in 1..Len(PositionsOf(html, "table")) |-> CellTexts(html[PositionsOf(html, "table")[k]])]

\* two documents with the same elements but for the formatting of one
FormattingDiffers(left, right) ==
  /\ Len(left) = Len(right)
  /\ \E i \in 1..Len(left) :
       /\ left[i].kind = "text" /\ right[i].kind = "text"
       /\ left[i].fmt # right[i].fmt
  /\ \A i \in 1..Len(left) :
       left[i].kind = "text" /\ right[i].kind = "text" =>
         left[i].tagName = right[i].tagName /\ left[i].text = right[i].text

\* C9: the fast path: two identical documents are returned as they came in,
\* each as one 'equal' segment, with an all-zero summary and an empty report,
\* before any stage ran; and the fast path is taken only for documents that
\* do not differ in an image, in a table or in formatting.
C9_FastPath ==
  /\ ReturnedHtml /\ leftHtml = rightHtml /\ failed = {} =>
       /\ path = "identical"
       /\ result = OriginalOutput(leftHtml, rightHtml)
       /\ summaries = <<>>
       /\ leftWork = leftHtml /\ rightWork = rightHtml
  /\ ReturnedHtml /\ path = "identical" =>
       /\ ImagesOf(leftHtml) = ImagesOf(rightHtml)
       /\ TablesOf(leftHtml) = TablesOf(rightHtml)
       /\ ~FormattingDiffers(leftHtml, rightHtml)

\* the steps whose exception no stage recovers from
PipelineFailures == {"extractPlainText", "comparison", "window"}

\* C10: pipeline failure: when a step of compareHtmlDocuments throws and no
\* stage recovers from it, the call does not throw and its promise is not
\* rejected; the result is the degraded output: the original leftHtml and
\* rightHtml as one 'equal' segment each, an all-zero summary and the report
\* {lines: [], tables: [], images: []}.
C10_DegradedOutput ==
  ReturnedHtml /\ failed \cap PipelineFailures # {} =>
    /\ promise # "rejected"
    /\ result = OriginalOutput(leftHtml, rightHtml)

(***************************************************************************)
(* Claims on the stages of compareHtmlDocuments.                           *)
(***************************************************************************)
\* the stages of compareHtmlDocuments of part_000 in the order they run
StageOrder == <<"block", "image", "table", "word">>

\* what a stage makes of the documents left and right when nothing throws
StageResult(stage, left, right) ==
  CASE stage = "block" ->
         LET o == applyMutualBlockComparison(left, right)
         IN [left |-> o.leftWithBlocks, right |-> o.rightWithBlocks, summary |-> o.blockSummary]
    [] stage = "image" ->
         LET o == applyMutualImageComparison(left, right)
         IN [left |-> o.leftWithImages, right |-> o.rightWithImages, summary |-> o.imageSummary]
    [] stage = "table" ->
         LET o == applyMutualTableComparison(left, right)
         IN [left |-> o.leftWithTables, right |-> o.rightWithTables, summary |-> o.tableSummary]
    [] stage = "word" ->
         LET o == applyMutualWordLevelComparison(left, right)
         IN [left |-> o.leftFinal, right |-> o.rightFinal, summary |-> o.textSummary]

\* a stage that fails hands its input on and counts nothing
LocalFailure(stage, f, left, right) ==
  IF stage \in f
  THEN [left |-> left, right |-> right, summary |-> NoChange]
  ELSE StageResult(stage, left, right)

\* the documents after the first n stages, and the contributions of these
\* stages, when the stages of f fail and fail locally
RECURSIVE AfterStages(_, _)
AfterStages(n, f) ==
  IF n = 0
  THEN [left |-> leftHtml, right |-> rightHtml, summaries |-> <<>>]
  ELSE LET before == AfterStages(n - 1, f)
           r == LocalFailure(StageOrder[n], f, before.left, before.right)
       IN [left |-> r.left, right |-> r.right,
           summaries |-> Append(before.summaries, [additions |-> r.summary.additions,
                                                   deletions |-> r.summary.deletions])]

\* the sum of field of the contributions of the stages that did not fail
RECURSIVE SucceededSum(_, _, _)
SucceededSum(ss, field, n) ==
  IF n = 0 THEN 0
  ELSE SucceededSum(ss, field, n - 1)
         + (IF StageOrder[n] \in failed THEN 0 ELSE ss[n][field])

\* the stages are under way or over (the call got past its test for
\* identical documents)
Staged ==
  /\ entry = "compareHtmlDocuments"
  /\ \/ pc \in {"block", "image", "table", "word", "report"}
     \/ pc = "returned" /\ path = "compared"

\* C11: stage failure is local: a stage that throws hands on the HTML it was
\* given, unchanged, and contributes {additions: 0, deletions: 0} (the report
\* stage: an empty report); the stages after it still run, and the summary
\* of the result is the sum of the contributions of the stages that did not
\* throw.
C11_StageFailureLocal ==
  Staged =>
    LET n == Len(summaries)
        expected == AfterStages(n, failed)
    IN /\ leftWork = expected.left
       /\ rightWork = expected.right
       /\ summaries = expected.summaries
       /\ \A k \in 1..n : StageOrder[k] \in failed => summaries[k] = NoChange
       /\ pc = "returned" =>
            /\ n = Len(StageOrder)
            /\ result.leftDiffs = <<[type |-> "equal", content |-> expected.left]>>
            /\ result.rightDiffs = <<[type |-> "equal", content |-> expected.right]>>
            /\ result.summary.additions = SucceededSum(expected.summaries, "additions", n)
            /\ result.summary.deletions = SucceededSum(expected.summaries, "deletions", n)
            /\ result.summary.changes = result.summary.additions + result.summary.deletions
            /\ result.detailed = (IF "report" \in failed THEN EmptyReport
                                  ELSE generateDetailedReport(leftHtml, rightHtml))

\* the block stage threw where it would have counted a change, and a later
\* stage counted one
C11_Witness ==
  /\ Staged
  /\ pc = "returned"
  /\ failed = {"block"}
  /\ applyMutualBlockComparison(leftHtml, rightHtml).blockSummary # NoChange
  /\ summaries[1] = NoChange
  /\ result.summary.changes > 0
  /\ result.detailed # EmptyReport

(***************************************************************************)
(* Claims on the deferred compareHtmlDocuments (SpecDeferred).             *)
(***************************************************************************)
\* the promise is resolved with a whole result: the result of the comparison
\* (its report empty when the report could not be made) or the degraded
\* output
WholeResult ==
  \/ result = OriginalOutput(leftHtml, rightHtml)
  \/ result = compareHtmlDocumentsAsync(leftHtml, rightHtml)
  \/ result = [compareHtmlDocumentsAsync(leftHtml, rightHtml) EXCEPT !.detailed = EmptyReport]

\* C12: the deferred compareHtmlDocuments: after a call the scheduled
\* callback eventually runs, in one step from start to end, and the promise
\* is resolved exactly once, with a complete result or with the degraded
\* output; no partial result is ever seen, and the promise is never rejected
\* nor left pending.
C12_ResolvedOnce ==
  /\ [](promise # "rejected")
  /\ [](promise \in {"none", "pending"} => result = NoResult)
  /\ [](promise = "resolved" => pc = "returned" /\ WholeResult)
  /\ [][promise = "resolved" => promise' = "resolved" /\ result' = result]_vars
  /\ [][promise = "pending" /\ pc' # pc => pc' = "returned" /\ promise' = "resolved"]_vars
  /\ (pc = "called") ~> (promise = "resolved")

(***************************************************************************)
(* Claims on the passes of alignBlocks (SpecAlign).                        *)
(***************************************************************************)
\* the entry of the alignment that holds the left block at position l
\* (1-based), and the one that holds the right block at position r
EntryOfLeft(l) ==
  CHOOSE k \in Entries : ~IsNull(alignment[k].left) /\ alignment[k].left.index = l - 1
EntryOfRight(r) ==
  CHOOSE k \in Entries : ~IsNull(alignment[k].right) /\ alignment[k].right.index = r - 1

\* the similarity of the left block at l and the right block at r
Sim(l, r) == getTextSimilarity(leftBlocks[l].text, rightBlocks[r].text)

\* the right blocks the fuzzy pass can still give to the left block at l:
\* those of its tag that the exact pass left and that no earlier left block
\* took in the fuzzy pass, and that are similar enough
FuzzyCandidates(l) ==
  {r \in 1..Len(rightBlocks) :
     /\ rightBlocks[r].tagName = leftBlocks[l].tagName
     /\ alignment[EntryOfRight(r)].type # "equal"
     /\ ~ (/\ alignment[EntryOfRight(r)].type = "modified"
           /\ alignment[EntryOfRight(r)].left.index < l - 1)
     /\ RatioGT(Sim(l, r), 6, 10)}

\* C13: the fuzzy pass of alignBlocks: a left block that the exact pass left
\* unmatched is paired, as 'modified', with the unmatched right block of its
\* tag whose similarity is the largest among those above 0.6, the earliest
\* of them in the right document at a tie; it stays unmatched only when no
\* candidate is above 0.6.
C13_FuzzyPassBest ==
  Returned("alignBlocks") =>
    \A l \in 1..Len(leftBlocks) :
      LET e == alignment[EntryOfLeft(l)]
      IN /\ e.type = "removed" => FuzzyCandidates(l) = {}
         /\ e.type = "modified" =>
              /\ e.right.index + 1 \in FuzzyCandidates(l)
              /\ \A r \in FuzzyCandidates(l) :
                   /\ ~RatioGreater(Sim(l, r), Sim(l, e.right.index + 1))
                   /\ ~RatioGreater(Sim(l, e.right.index + 1), Sim(l, r)) => e.right.index + 1 <= r

\* the right blocks the exact pass can still give to the left block at l:
\* those of its tag and of its normalised text that no earlier left block
\* took in the exact pass
ExactCandidatesLeft(l) ==
  {r \in 1..Len(rightBlocks) :
     /\ rightBlocks[r].tagName = leftBlocks[l].tagName
     /\ normalize(rightBlocks[r].text) = normalize(leftBlocks[l].text)
     /\ ~ (/\ alignment[EntryOfRight(r)].type = "equal"
           /\ alignment[EntryOfRight(r)].left.index < l - 1)}

\* C14: the exact pass of alignBlocks: each left block, in left order, is
\* paired as 'equal' with the first right block not yet matched that has its
\* tag and its text up to trimming, runs of whitespace and case; a block
\* matched by the exact pass is in no other entry, and no entry of any pass
\* pairs two blocks of different tags.
C14_ExactPassFirst ==
  Returned("alignBlocks") =>
    /\ \A l \in 1..Len(leftBlocks) :
         LET e == alignment[EntryOfLeft(l)]
         IN IF ExactCandidatesLeft(l) = {}
            THEN e.type # "equal"
            ELSE /\ e.type = "equal"
                 /\ e.right.index + 1 = SetMin(ExactCandidatesLeft(l))
    /\ \A k \in Entries :
         alignment[k].type = "equal" =>
           \A j \in Entries \ {k} :
             /\ IsNull(alignment[j].left) \/ alignment[j].left.index # alignment[k].left.index
             /\ IsNull(alignment[j].right) \/ alignment[j].right.index # alignment[k].right.index
    /\ \A k \in Entries :
         ~IsNull(alignment[k].left) /\ ~IsNull(alignment[k].right) =>
           alignment[k].left.tagName = alignment[k].right.tagName

\* a left block with two exact candidates takes the first, the second is
\* left over; and a block with the same text under another tag is not taken
C14_Witness ==
  /\ Returned("alignBlocks")
  /\ Len(rightBlocks) = 2
  /\ \E l \in 1..Len(leftBlocks) :
       /\ Cardinality(ExactCandidatesLeft(l)) = 2
       /\ alignment[EntryOfLeft(l)].type = "equal"
       /\ alignment[EntryOfLeft(l)].right.index = 0
       /\ alignment[EntryOfRight(2)].type # "equal"

(***************************************************************************)
(* Claims on tables and images.                                            *)
(***************************************************************************)
\* two tables, given by the texts of their cells, differ in a slot: a row or
\* a cell that only one of them has, or a cell whose text is not the same
SlotsDiffer(a, b) ==
  \/ Len(a) # Len(b)
  \/ \E r \in 1..Min(Len(a), Len(b)) :
       \/ Len(a[r]) # Len(b[r])
       \/ \E c \in 1..Min(Len(a[r]), Len(b[r])) :
            ~areTextsEqual(trim(a[r][c]), trim(b[r][c]))

\* the texts of the cells of the t-th table of a document, row by row
CellMatrix(html, t) ==
  LET table == html[PositionsOf(html, "table")[t]]
  IN [r \in 1..Len(table.rows) |->
        [c \in 1..Len(table.rows[r].cells) |-> table.rows[r].cells[c].text]]

TableCount(html) == Len(PositionsOf(html, "table"))

\* the number of the table pairs of the two documents that differ
DifferingTablePairs ==
  Cardinality({t \in 1..Min(TableCount(leftHtml), TableCount(rightHtml)) :
                 SlotsDiffer(CellMatrix(leftHtml, t), CellMatrix(rightHtml, t))})

\* every table of one document faces a table of the other
TablesPaired == TableCount(leftHtml) = TableCount(rightHtml)

\* the two documents are made of tables only, one facing the other
OnlyTablePairs ==
  /\ Len(leftHtml) = Len(rightHtml)
  /\ \A i \in 1..Len(leftHtml) : leftHtml[i].kind = "table" /\ rightHtml[i].kind = "table"

\* C15: a pair of tables at the same position adds exactly one addition and
\* one deletion to the summary when a cell, a row or a column slot differs
\* and nothing when none does, however many cells or rows differ.
C15_TablePairCountsOnce ==
  /\ Staged /\ Len(summaries) >= 3 /\ "table" \notin failed /\ TablesPaired =>
       /\ summaries[3].additions = DifferingTablePairs
       /\ summaries[3].deletions = DifferingTablePairs
  /\ /\ Returned("compareHtmlDocumentsAsync")
     /\ path = "compared" /\ failed = {} /\ OnlyTablePairs
     => /\ result.summary.additions = DifferingTablePairs
        /\ result.summary.deletions = DifferingTablePairs

\* the slots of the tables of a document: the t-th table, its r-th row, the
\* c-th cell of that row
HasTable(html, t) == t <= TableCount(html)
HasRow(html, t, r) == HasTable(html, t) /\ r <= Len(CellMatrix(html, t))
HasCell(html, t, r, c) == HasRow(html, t, r) /\ c <= Len(CellMatrix(html, t)[r])

\* the status of a slot that the left document has or not (inLeft), and the
\* right document has or not (inRight)
OneSided(status, inLeft, inRight) ==
  /\ status = "ADDED" <=> ~inLeft /\ inRight
  /\ status = "REMOVED" <=> inLeft /\ ~inRight
  /\ status \in {"ADDED", "REMOVED"}

\* an entry of the table report says what the slot it names is in the two
\* documents, and names no slot below one that one document lacks
TableEntryRight(e) ==
  IF "col" \in DOMAIN e
  THEN /\ HasRow(leftHtml, e.table, e.row) /\ HasRow(rightHtml, e.table, e.row)
       /\ IF e.status = "MODIFIED"
          THEN /\ HasCell(leftHtml, e.table, e.row, e.col)
               /\ HasCell(rightHtml, e.table, e.row, e.col)
               /\ trim(CellMatrix(leftHtml, e.table)[e.row][e.col])
                    # trim(CellMatrix(rightHtml, e.table)[e.row][e.col])
          ELSE OneSided(e.status, HasCell(leftHtml, e.table, e.row, e.col),
                                  HasCell(rightHtml, e.table, e.row, e.col))
  ELSE IF "row" \in DOMAIN e
  THEN /\ HasTable(leftHtml, e.table) /\ HasTable(rightHtml, e.table)
       /\ OneSided(e.status, HasRow(leftHtml, e.table, e.row), HasRow(rightHtml, e.table, e.row))
  ELSE OneSided(e.status, HasTable(leftHtml, e.table), HasTable(rightHtml, e.table))

\* the number of entries of the table report for a slot
TableEntries(report, slot) ==
  Cardinality({k \in DOMAIN report :
                 /\ DOMAIN report[k] \ {"status", "diffHtml"} = DOMAIN slot
                 /\ \A f \in DOMAIN slot : report[k][f] = slot[f]})

\* the numbers of tables, of rows of the tables at t and of cells of their
\* rows at r, in the longer of the two documents
TableSlots == 1..Max(TableCount(leftHtml), TableCount(rightHtml))
RowSlots(t) ==
  1..Max(IF HasTable(leftHtml, t) THEN Len(CellMatrix(leftHtml, t)) ELSE 0,
         IF HasTable(rightHtml, t) THEN Len(CellMatrix(rightHtml, t)) ELSE 0)
CellSlots(t, r) ==
  1..Max(IF HasRow(leftHtml, t, r) THEN Len(CellMatrix(leftHtml, t)[r]) ELSE 0,
         IF HasRow(rightHtml, t, r) THEN Len(CellMatrix(rightHtml, t)[r]) ELSE 0)

\* every slot that one document only has, and whose table or row is not
\* already missing, is reported once
OneSidedSlotsReported(report) ==
  \A t \in TableSlots :
    /\ HasTable(leftHtml, t) # HasTable(rightHtml, t) =>
         TableEntries(report, [table |-> t]) = 1
    /\ \A r \in RowSlots(t) :
         /\ /\ HasTable(leftHtml, t) /\ HasTable(rightHtml, t)
            /\ HasRow(leftHtml, t, r) # HasRow(rightHtml, t, r)
            => TableEntries(report, [table |-> t, row |-> r]) = 1
         /\ \A c \in CellSlots(t, r) :
              /\ HasRow(leftHtml, t, r) /\ HasRow(rightHtml, t, r)
              /\ HasCell(leftHtml, t, r, c) # HasCell(rightHtml, t, r, c)
              => TableEntries(report, [table |-> t, row |-> r, col |-> c]) = 1

\* the right table at t is the left table at t with one more row
OneMoreRow(t) ==
  /\ HasTable(leftHtml, t) /\ HasTable(rightHtml, t)
  /\ Len(CellMatrix(rightHtml, t)) = Len(CellMatrix(leftHtml, t)) + 1
  /\ SubSeq(CellMatrix(rightHtml, t), 1, Len(CellMatrix(leftHtml, t))) = CellMatrix(leftHtml, t)

\* C16: tables are compared by position: the t-th table of the left document
\* with the t-th of the right, row with row of the same index and cell with
\* cell of the same column; a table, row or cell that only the right document
\* has is reported ADDED at its slot, one that only the left has REMOVED.
\* When the right table is the left table with one more row, that row is
\* reported ADDED, nothing else is reported for the table, and the pair
\* counts as a change.
C16_TablesPositional ==
  /\ Returned("compareHtmlDocuments") /\ path = "compared" /\ "report" \notin failed =>
       LET report == result.detailed.tables
       IN /\ \A k \in DOMAIN report : TableEntryRight(report[k])
          /\ OneSidedSlotsReported(report)
          /\ \A t \in TableSlots :
               OneMoreRow(t) =>
                 \A k \in DOMAIN report :
                   report[k].table = t =>
                     report[k] = [table |-> t, row |-> Len(CellMatrix(rightHtml, t)),
                                  status |-> "ADDED"]
  /\ Staged /\ Len(summaries) >= 3 /\ "table" \notin failed =>
       /\ (\E t \in TableSlots : OneMoreRow(t)) => summaries[3].additions > 0
       /\ DifferingTablePairs > 0 => summaries[3].additions + summaries[3].deletions > 0

\* a table of one row against the same table with a second row
C16_Witness ==
  /\ Returned("compareHtmlDocuments")
  /\ path = "compared"
  /\ failed = {}
  /\ OneMoreRow(1)
  /\ result.detailed.tables = <<[table |-> 1, row |-> 2, status |-> "ADDED"]>>
  /\ summaries[3] = [additions |-> 1, deletions |-> 0]

\* the k-th images of the two documents differ: in their src or in their alt
ImagesDiffer(k) == ImagesOf(leftHtml)[k] # ImagesOf(rightHtml)[k]

ImagePairs == 1..Min(Len(ImagesOf(leftHtml)), Len(ImagesOf(rightHtml)))

\* the k-th image of a view carries the class cls
ImageMarked(view, k, cls) == cls \in view[PositionsOf(view, "img")[k]].classList

\* the image report says that the image at index i changed
ReportedChanged(report, i) ==
  \E j \in DOMAIN report :
    report[j].index = i /\ report[j].status \in {"REPLACED", "MODIFIED"}

\* C17: two images at the same position are equal only when their src and
\* their alt are both the same; when either differs both images are marked
\* modified in the views, the summary counts a change, and the image report
\* lists the image as changed.
C17_ImagesBySrcAndAlt ==
  /\ Staged /\ Len(summaries) >= 2 /\ "image" \notin failed =>
       /\ \A k \in ImagePairs :
            /\ ImagesDiffer(k) <=> ImageMarked(leftWork, k, "structural-modified")
            /\ ImagesDiffer(k) <=> ImageMarked(rightWork, k, "structural-modified")
       /\ (\E k \in ImagePairs : ImagesDiffer(k)) =>
            summaries[2].additions > 0 /\ summaries[2].deletions > 0
  /\ Returned("compareHtmlDocuments") /\ path = "compared" /\ "report" \notin failed =>
       \A k \in ImagePairs : ImagesDiffer(k) <=> ReportedChanged(result.detailed.images, k)
  /\ Returned("compareHtmlDocumentsAsync") /\ path = "compared" /\ failed = {} =>
       \A i \in 1..Min(Len(leftHtml), Len(rightHtml)) :
         leftHtml[i].kind = "img" /\ rightHtml[i].kind = "img" =>
           LET differ == leftHtml[i].src # rightHtml[i].src \/ leftHtml[i].alt # rightHtml[i].alt
           IN /\ differ <=> "git-image-modified" \in leftWork[i].classList
              /\ differ <=> "git-image-modified" \in rightWork[i].classList
              /\ differ => result.summary.additions > 0 /\ result.summary.deletions > 0
              /\ differ <=> ReportedChanged(result.detailed.images, i)

(***************************************************************************)
(* Claims on empty blocks, extraction and placeholders.                    *)
(***************************************************************************)
\* the node is a text block; a text block is empty when its normalised text
\* is the empty string
IsTextBlock(node) == node.kind = "text"
IsEmptyBlock(node) == normalize(node.text) = <<>>

\* the positions at which both documents have a text block
TextPairs ==
  {i \in 1..Min(Len(leftHtml), Len(rightHtml)) :
     IsTextBlock(leftHtml[i]) /\ IsTextBlock(rightHtml[i])}

\* the two documents are one text block each
SingleTextPair == Len(leftHtml) = 1 /\ Len(rightHtml) = 1 /\ TextPairs = {1}

HighlightClasses ==
  {"git-line-added", "git-line-removed", "git-line-modified",
   "git-line-placeholder", "placeholder-added", "placeholder-removed"}

\* what the overlay asks of the views for the pair at position i
OverlayInViews(i) ==
  LET l == leftHtml[i]
      r == rightHtml[i]
  IN /\ IsEmptyBlock(l) /\ IsEmptyBlock(r) =>
          /\ leftWork[i].classList \cap HighlightClasses = {}
          /\ rightWork[i].classList \cap HighlightClasses = {}
     /\ IsEmptyBlock(l) /\ ~IsEmptyBlock(r) =>
          /\ "git-line-added" \in rightWork[i].classList
          /\ "placeholder-added" \in leftWork[i].classList
     /\ ~IsEmptyBlock(l) /\ IsEmptyBlock(r) =>
          /\ "git-line-removed" \in leftWork[i].classList
          /\ "placeholder-removed" \in rightWork[i].classList
     /\ IsEmptyBlock(l) \/ IsEmptyBlock(r) =>
          /\ "git-line-modified" \notin leftWork[i].classList
          /\ "git-line-modified" \notin rightWork[i].classList

\* what the overlay asks of the counts s of a single pair
OverlayInCounts(s) ==
  LET l == leftHtml[1]
      r == rightHtml[1]
  IN /\ IsEmptyBlock(l) /\ IsEmptyBlock(r) => s.additions = 0 /\ s.deletions = 0
     /\ IsEmptyBlock(l) /\ ~IsEmptyBlock(r) => s.additions = 1 /\ s.deletions = 0
     /\ ~IsEmptyBlock(l) /\ IsEmptyBlock(r) => s.additions = 0 /\ s.deletions = 1

\* C18: the empty-block overlay: two empty blocks that face each other are
\* Equal, with no highlight and no count, whatever their tags; when exactly
\* one of the two is empty the pair is Added (the left one empty) or Removed
\* (the right one empty), with a placeholder on the empty side and exactly
\* one count, and never Modified.
C18_EmptyOverlay ==
  /\ Returned("compareHtmlDocumentsAsync") /\ path = "compared" /\ failed = {} =>
       /\ \A i \in TextPairs : OverlayInViews(i)
       /\ SingleTextPair => OverlayInCounts(result.summary)
  /\ Staged /\ Len(summaries) >= 1 /\ "block" \notin failed /\ SingleTextPair =>
       /\ OverlayInCounts(summaries[1])
       /\ pc = "image" => OverlayInViews(1)

\* the element of the document that an extracted block was made from
SourceElement(b) ==
  IF entry = "extractBlocks"
  THEN querySelectorAll(leftHtml, BlockSelector)[b.index + 1]
  ELSE querySelectorAll(leftHtml, AllSelector)[b.index + 1]

IsPrefix(s, t) == Len(s) <= Len(t) /\ SubSeq(t, 1, Len(s)) = s

Extracted == entry \in {"extractBlocks", "extractAllElements"} /\ pc = "returned"

TextBlocks == {k \in 1..Len(leftBlocks) : leftBlocks[k].tagName \notin {"table", "img"}}

\* a text-like block is emitted only without nested extractable element and
\* outside tables
NoNestedEmitted ==
  \A k \in TextBlocks :
    /\ ~SourceElement(leftBlocks[k]).insideTable
    /\ SourceElement(leftBlocks[k]).nested \cap (BlockSelector \cup AllSelector) = {}

\* every table and image of the document is emitted exactly once
TablesAndImagesOnce ==
  entry = "extractAllElements" =>
    \A i \in 1..Len(querySelectorAll(leftHtml, {"table", "img"})) :
      Cardinality({k \in 1..Len(leftBlocks) :
                     SourceElement(leftBlocks[k]).path
                       = querySelectorAll(leftHtml, {"table", "img"})[i].path}) = 1

DocumentOrder ==
  \A j, k \in 1..Len(leftBlocks) : j < k => leftBlocks[j].index < leftBlocks[k].index

\* no emitted text block is an ancestor or a descendant of another one
NoAncestorPair ==
  \A j, k \in TextBlocks :
    j # k => ~IsPrefix(SourceElement(leftBlocks[j]).path, SourceElement(leftBlocks[k]).path)

\* C19: block extraction emits a text-like element only if it holds no nested
\* extractable element and is not inside a table, emits every table and image
\* exactly once and keeps document order, so no emitted text block is an
\* ancestor or a descendant of another emitted block
C19_ExtractionDisjoint ==
  Extracted =>
    /\ NoNestedEmitted
    /\ TablesAndImagesOnce
    /\ DocumentOrder
    /\ NoAncestorPair

\* node is a placeholder of the given kind that previews text
IsPlaceholderFor(node, cls, text) ==
  /\ {"git-line-placeholder", cls} \subseteq node.classList \/ node.kind = "placeholder"
  /\ \E k \in 0..Len(node.text) :
       SubSeq(node.text, k + 1, k + Min(PlaceholderTextMax, Len(text)))
         = SubSeq(text, 1, Min(PlaceholderTextMax, Len(text)))

\* the positional engine: an element with no partner on the other side
AddedPositions ==
  {i \in 1..Len(extractAllElements(rightHtml)) : i > Len(extractAllElements(leftHtml))}

RemovedPositions ==
  {i \in 1..Len(extractAllElements(leftHtml)) : i > Len(extractAllElements(rightHtml))}

PlaceholdersPositional ==
  /\ Len(leftWork) = Len(rightWork)
  /\ \A i \in AddedPositions :
       /\ "git-line-added" \in rightWork[i].classList
       /\ IsPlaceholderFor(leftWork[i], "placeholder-added", extractAllElements(rightHtml)[i].text)
  /\ \A i \in RemovedPositions :
       /\ "git-line-removed" \in leftWork[i].classList
       /\ IsPlaceholderFor(rightWork[i], "placeholder-removed", extractAllElements(leftHtml)[i].text)

\* the staged engine: the entries of the alignment of the two block lists
BlockAlignment == alignBlocks(extractBlocks(leftHtml), extractBlocks(rightHtml))

PlaceholdersStaged ==
  \A k \in 1..Len(BlockAlignment) :
    LET e == BlockAlignment[k]
    IN /\ e.type = "added" =>
            /\ "git-line-added" \in rightWork[e.right.element].classList
            /\ \E i \in 1..Len(leftWork) :
                 IsPlaceholderFor(leftWork[i], "placeholder-added", e.right.text)
       /\ e.type = "removed" =>
            /\ "git-line-removed" \in leftWork[e.left.element].classList
            /\ \E i \in 1..Len(rightWork) :
                 IsPlaceholderFor(rightWork[i], "placeholder-removed", e.left.text)

\* C20: for every Added entry the right view shows the real block marked
\* 'added' and the left view holds a placeholder at the corresponding
\* position that previews the right content, and symmetrically for Removed
C20_PlaceholderOnOtherSide ==
  /\ Returned("compareHtmlDocumentsAsync") /\ path = "compared" /\ failed = {} =>
       PlaceholdersPositional
  /\ Staged /\ pc = "image" /\ "block" \notin failed => PlaceholdersStaged

\* the block at position i has the same text in both documents, bold in the
\* left one only
BoldOnlyLeft(i) ==
  /\ i <= Len(leftHtml) /\ i <= Len(rightHtml)
  /\ leftHtml[i].kind = "text" /\ rightHtml[i].kind = "text"
  /\ trim(leftHtml[i].text) # <<>>
  /\ leftHtml[i].text = rightHtml[i].text
  /\ leftHtml[i].fmt = Bold /\ rightHtml[i].fmt = PlainFmt

NoMarkup(diffHtml) == \A k \in 1..Len(diffHtml) : diffHtml[k].cls = ""

\* the report has a FORMATTING-ONLY line that says 'bold: on -> off'
ReportsBoldOff(lines) ==
  \E k \in 1..Len(lines) :
    /\ lines[k].status = "FORMATTING-ONLY"
    /\ lines[k].formatChanges = << <<"bold", "on", "off">> >>
    /\ NoMarkup(lines[k].diffHtml)

\* both documents have the same number of lines, with equivalent texts
LinesFaceEachOther ==
  LET leftLines == collectBlockLinesWithFormat(leftHtml)
      rightLines == collectBlockLinesWithFormat(rightHtml)
  IN /\ Len(leftLines) = Len(rightLines)
     /\ \A k \in 1..Len(leftLines) :
          /\ trim(leftLines[k].text) # <<>>
          /\ areWordsEquivalent(leftLines[k].text, rightLines[k].text)

\* line k of the report is FORMATTING-ONLY exactly when the formats differ
FormattingOnlyIff(lines) ==
  LET leftLines == collectBlockLinesWithFormat(leftHtml)
      rightLines == collectBlockLinesWithFormat(rightHtml)
  IN /\ Len(lines) = Len(leftLines)
     /\ \A k \in 1..Len(lines) :
          /\ lines[k].status = "FORMATTING-ONLY" <=> leftLines[k].fmt # rightLines[k].fmt
          /\ lines[k].status \in {"FORMATTING-ONLY", "UNCHANGED"}

\* C21: formatting-only changes are reported: when a block has the same text
\* in both documents and is bold in the left one only, the detailed report of
\* the comparison has a line of status FORMATTING-ONLY for it, with
\* formatChanges exactly 'bold: on -> off' and no insert or delete markup; a
\* line is FORMATTING-ONLY if and only if its texts are equivalent and a
\* formatting attribute differs.
C21_FormattingOnlyReported ==
  Returned("compareHtmlDocuments") /\ failed = {} /\ env = "browser" =>
    /\ (\E i \in 1..Len(leftHtml) : BoldOnlyLeft(i)) /\ LinesFaceEachOther =>
         ReportsBoldOff(result.detailed.lines)
    /\ path = "compared" /\ LinesFaceEachOther => FormattingOnlyIff(result.detailed.lines)
    /\ \A k \in 1..Len(result.detailed.lines) :
         result.detailed.lines[k].status = "FORMATTING-ONLY" =>
           /\ result.detailed.lines[k].formatChanges # <<>>
           /\ NoMarkup(result.detailed.lines[k].diffHtml)

\* the attributes of compareFormat, in its order
FormatAttributes == <<"bold", "italic", "underline", "font-size", "alignment">>

\* how compareFormat shows attribute a of the format f
Shown(f, a) ==
  CASE a = "bold" -> IF f.hasBold THEN "on" ELSE "off"
    [] a = "italic" -> IF f.hasItalic THEN "on" ELSE "off"
    [] a = "underline" -> IF f.hasUnderline THEN "on" ELSE "off"
    [] a = "font-size" -> IF f.fontSize = "" THEN "auto" ELSE f.fontSize
    [] a = "alignment" -> IF f.textAlign = "" THEN "auto" ELSE f.textAlign

AttributeOf(f, a) ==
  CASE a = "bold" -> f.hasBold
    [] a = "italic" -> f.hasItalic
    [] a = "underline" -> f.hasUnderline
    [] a = "font-size" -> f.fontSize
    [] a = "alignment" -> f.textAlign

DifferingAttributes(fa, fb) ==
  {n \in 1..Len(FormatAttributes) :
     AttributeOf(fa, FormatAttributes[n]) # AttributeOf(fb, FormatAttributes[n])}

\* changes lists the attributes ns, in order, each as <<attr, old, new>>
ListsInOrder(changes, ns, fa, fb) ==
  /\ Len(changes) = Cardinality(ns)
  /\ \A k \in 1..Len(changes) :
       \E n \in ns :
         /\ Cardinality({m \in ns : m < n}) = k - 1
         /\ changes[k] = <<FormatAttributes[n], Shown(fa, FormatAttributes[n]),
                           Shown(fb, FormatAttributes[n])>>

\* C22: compareFormat(fa, fb) returns one entry '<attr>: <old> -> <new>' per
\* differing attribute among bold, italic, underline, font-size and
\* alignment, in that order, so its length is the number of differing
\* attributes; it is empty exactly when no attribute differs, and
\* compareFormat(f, f) is empty.
C22_CompareFormat ==
  Returned("compareFormat") =>
    LET fa == leftHtml[1].fmt
        fb == rightHtml[1].fmt
    IN /\ ListsInOrder(result.formatChanges, DifferingAttributes(fa, fb), fa, fb)
       /\ result.formatChanges = <<>> <=> DifferingAttributes(fa, fb) = {}
       /\ fa = fb => result.formatChanges = <<>>

C22_Witness ==
  /\ Returned("compareFormat")
  /\ Len(result.formatChanges) = Len(FormatAttributes)
  /\ leftHtml[1].fmt.fontSize # "" /\ rightHtml[1].fmt.fontSize # ""

\* the number a line-number string stands for, 0 when it is empty or no
\* number up to n
LineNumber(v, n) ==
  IF \E m \in 1..n : ToString(m) = v THEN CHOOSE m \in 1..n : ToString(m) = v ELSE 0

\* which sides of a report line are numbered, by its status
SidesByStatus(line) ==
  /\ line.status = "ADDED" => line.v1 = "" /\ line.v2 # ""
  /\ line.status = "REMOVED" => line.v1 # "" /\ line.v2 = ""
  /\ line.status \notin {"ADDED", "REMOVED"} => line.v1 # "" /\ line.v2 # ""

\* the numbers of each side increase along the report
NumbersIncrease(lines, nL, nR) ==
  \A j, k \in 1..Len(lines) :
    j < k =>
      /\ lines[j].v1 # "" /\ lines[k].v1 # "" =>
           LineNumber(lines[j].v1, nL) < LineNumber(lines[k].v1, nL)
      /\ lines[j].v2 # "" /\ lines[k].v2 # "" =>
           LineNumber(lines[j].v2, nR) < LineNumber(lines[k].v2, nR)

\* the staged report: the number on each side is the place of the line's
\* block among the lines of that side
NumbersAreLinesStaged(lines) ==
  LET leftLines == collectBlockLinesWithFormat(leftHtml)
      rightLines == collectBlockLinesWithFormat(rightHtml)
      n1(line) == LineNumber(line.v1, Len(leftLines))
      n2(line) == LineNumber(line.v2, Len(rightLines))
  IN \A k \in 1..Len(lines) :
       LET line == lines[k]
       IN /\ line.v1 # "" => n1(line) > 0
          /\ line.v2 # "" => n2(line) > 0
          /\ line.status = "ADDED" /\ n2(line) > 0 =>
               line.diffHtml = inlineDiffHtml(<<>>, rightLines[n2(line)].text)
          /\ line.status = "REMOVED" /\ n1(line) > 0 =>
               line.diffHtml = inlineDiffHtml(leftLines[n1(line)].text, <<>>)
          /\ line.status = "MODIFIED" /\ n1(line) > 0 /\ n2(line) > 0 =>
               line.diffHtml = inlineDiffHtml(leftLines[n1(line)].text, rightLines[n2(line)].text)
          /\ line.status \in {"UNCHANGED", "FORMATTING-ONLY"} /\ n1(line) > 0 /\ n2(line) > 0 =>
               areWordsEquivalent(leftLines[n1(line)].text, rightLines[n2(line)].text)

\* the positional report: the number is the place of the element in the
\* list of elements of its side
NumbersAreLinesPositional(lines) ==
  LET leftElements == extractAllElements(leftHtml)
      rightElements == extractAllElements(rightHtml)
      n1(line) == LineNumber(line.v1, Len(leftElements))
      n2(line) == LineNumber(line.v2, Len(rightElements))
      isText(e) == ~e.isTable /\ ~e.isImage
  IN \A k \in 1..Len(lines) :
       LET line == lines[k]
       IN /\ line.v1 # "" => n1(line) > 0 /\ isText(leftElements[n1(line)])
          /\ line.v2 # "" => n2(line) > 0 /\ isText(rightElements[n2(line)])
          /\ line.status = "ADDED" /\ n2(line) > 0 =>
               line.diffHtml[1].text = escapeHtml(rightElements[n2(line)].text)
          /\ line.status = "REMOVED" /\ n1(line) > 0 =>
               line.diffHtml[1].text = escapeHtml(leftElements[n1(line)].text)
          /\ line.status = "UNCHANGED" /\ n1(line) > 0 /\ n2(line) > 0 =>
               areTextsEqual(leftElements[n1(line)].text, rightElements[n2(line)].text)

\* C23: in the lines of the detailed report v1 and v2 are the 1-based line
\* numbers of the block in the left and in the right document: an ADDED line
\* has no v1 and a v2, a REMOVED line a v1 and no v2, every other line both;
\* the numbers of each side increase strictly along the report; and each
\* number is the place of the block on its side, however many earlier blocks
\* were skipped.
C23_LineNumbers ==
  ReturnedHtml /\ path = "compared" /\ failed = {} =>
    LET lines == result.detailed.lines
    IN /\ \A k \in 1..Len(lines) : SidesByStatus(lines[k])
       /\ NumbersIncrease(lines, Len(leftHtml), Len(rightHtml))
       /\ entry = "compareHtmlDocuments" => NumbersAreLinesStaged(lines)
       /\ entry = "compareHtmlDocumentsAsync" => NumbersAreLinesPositional(lines)

(***************************************************************************)
(* Claims on the consistency of views and report, and on the rendering.    *)
(***************************************************************************)
\* a node of a view that carries no mark of a change
Unmarked(node) ==
  /\ node.classList = {}
  /\ "inner" \in DOMAIN node => \A k \in 1..Len(node.inner) : node.inner[k].cls = ""

ChangedStatuses == {"MODIFIED", "ADDED", "REMOVED", "REPLACED"}

\* the report has an entry that says that something changed at position i
ReportsChangeAt(report, i) ==
  \/ \E k \in 1..Len(report.lines) :
       /\ report.lines[k].status \in ChangedStatuses
       /\ ToString(i) \in {report.lines[k].v1, report.lines[k].v2}
  \/ \E k \in 1..Len(report.tables) :
       report.tables[k].table = i /\ report.tables[k].status \in ChangedStatuses
  \/ \E k \in 1..Len(report.images) :
       report.images[k].index = i /\ report.images[k].status \in ChangedStatuses

\* the positional engine: views and report agree at every position
ConsistentPositional ==
  \A i \in 1..Min(Len(leftWork), Len(rightWork)) :
    /\ IsTextBlock(leftWork[i]) /\ IsTextBlock(rightWork[i])
       /\ Unmarked(leftWork[i]) /\ Unmarked(rightWork[i]) =>
         ~ReportsChangeAt(result.detailed, i)
    /\ "git-line-modified" \in leftWork[i].classList \cap rightWork[i].classList =>
         ReportsChangeAt(result.detailed, i)

\* the staged engine: when the views leave every text block unmarked the
\* report has no changed line; an image pair marked modified is reported
ConsistentStaged ==
  /\ (\A i \in 1..Len(leftWork) : IsTextBlock(leftWork[i]) => Unmarked(leftWork[i]))
     /\ (\A i \in 1..Len(rightWork) : IsTextBlock(rightWork[i]) => Unmarked(rightWork[i])) =>
       \A k \in 1..Len(result.detailed.lines) :
         result.detailed.lines[k].status \notin ChangedStatuses
  /\ \A k \in ImagePairs :
       ImageMarked(leftWork, k, "structural-modified") =>
         ReportedChanged(result.detailed.images, k)

\* C24: the views and the report of one comparison are consistent: a text
\* block pair that the views leave unmarked is not reported MODIFIED, ADDED
\* or REMOVED, and a pair (text, table or image) that the views mark modified
\* is reported as changed.
C24_ViewsAndReportAgree ==
  /\ Returned("compareHtmlDocumentsAsync") /\ path = "compared" /\ failed = {} =>
       ConsistentPositional
  /\ Returned("compareHtmlDocuments") /\ path = "compared" /\ failed = {} =>
       ConsistentStaged

\* the same diff segment as it shows in the left and in the right view
SegmentOnBothSides(l, r) ==
  \/ l.cls = "" /\ r.cls = "" /\ l.text = r.text
  \/ /\ r.cls = "git-inline-added"
     /\ l.cls = "git-inline-placeholder"
     /\ l.text = <<"[+">> \o r.text \o <<"]">>
  \/ /\ l.cls = "git-inline-removed"
     /\ r.cls = "git-inline-placeholder"
     /\ r.text = <<"[-">> \o l.text \o <<"]">>

\* two view nodes show the same segments in the same order
PairRendered(l, r) ==
  /\ Len(l.inner) = Len(r.inner)
  /\ \A k \in 1..Len(l.inner) : SegmentOnBothSides(l.inner[k], r.inner[k])

\* the text of the pieces of a node that are its own side's content
OwnText(node) ==
  Concat([k \in 1..Len(node.inner) |->
            IF node.inner[k].cls = "git-inline-placeholder" THEN <<>> ELSE node.inner[k].text])

\* the node shows an inline diff
HasInlineDiff(node) ==
  /\ IsTextBlock(node)
  /\ \E k \in 1..Len(node.inner) : node.inner[k].cls \in {"git-inline-added", "git-inline-removed", "git-inline-placeholder"}

\* C25: applyDiffHighlighting renders every diff segment on both sides, in
\* the same order: an equal segment as plain text on both, an insert as a
\* 'git-inline-added' span on the right and a '[+...]' placeholder on the
\* left, a delete as a 'git-inline-removed' span on the left and a '[-...]'
\* placeholder on the right; no segment is left out on either side.
C25_SegmentsOnBothSides ==
  /\ Returned("compareHtmlDocumentsAsync") /\ path = "compared" /\ failed = {} =>
       \A i \in 1..Min(Len(leftWork), Len(rightWork)) :
         HasInlineDiff(leftWork[i]) \/ HasInlineDiff(rightWork[i]) =>
           /\ PairRendered(leftWork[i], rightWork[i])
           /\ OwnText(leftWork[i]) = escapeHtml(trim(leftHtml[i].text))
           /\ OwnText(rightWork[i]) = escapeHtml(trim(rightHtml[i].text))
  /\ Returned("compareHtmlDocuments") /\ path = "compared" /\ failed = {} =>
       /\ \A i \in 1..Len(leftWork) :
            HasInlineDiff(leftWork[i]) =>
              /\ \E j \in 1..Len(rightWork) : PairRendered(leftWork[i], rightWork[j])
              /\ OwnText(leftWork[i]) = escapeHtml(trim(leftHtml[i].text))
       /\ \A j \in 1..Len(rightWork) :
            HasInlineDiff(rightWork[j]) =>
              /\ \E i \in 1..Len(leftWork) : PairRendered(leftWork[i], rightWork[j])
              /\ OwnText(rightWork[j]) = escapeHtml(trim(rightHtml[j].text))

\* a modified pair with an equal, an inserted and a deleted segment
C25_Witness ==
  /\ Returned("compareHtmlDocumentsAsync") /\ path = "compared" /\ failed = {}
  /\ \E i \in 1..Min(Len(leftWork), Len(rightWork)) :
       /\ IsTextBlock(leftWork[i]) /\ IsTextBlock(rightWork[i])
       /\ "git-line-modified" \in leftWork[i].classList
       /\ \E k \in 1..Len(leftWork[i].inner) : leftWork[i].inner[k].cls = ""
       /\ \E k \in 1..Len(leftWork[i].inner) : leftWork[i].inner[k].cls = "git-inline-placeholder"
       /\ \E k \in 1..Len(leftWork[i].inner) : leftWork[i].inner[k].cls = "git-inline-removed"

\* the entry of a processed list stands for no element of its document
IsMissing(e) == e.element = 0

\* C26: performMutualElementComparison returns two lists of the same length
\* max(len(left), len(right)) that are aligned index by index: either both
\* entries are real elements, or exactly one is a placeholder without
\* element, highlighted 'empty-space-added' on the left or
\* 'empty-space-removed' on the right, and the entry that faces it is a real
\* element highlighted 'added' or 'removed'.
C26_ProcessedAligned ==
  Returned("performMutualElementComparison") =>
    LET lp == result.leftProcessed
        rp == result.rightProcessed
    IN /\ Len(lp) = Max(Len(leftBlocks), Len(rightBlocks))
       /\ Len(rp) = Len(lp)
       /\ \A i \in 1..Len(lp) :
            /\ IsMissing(lp[i]) <=> i > Len(leftBlocks)
            /\ IsMissing(rp[i]) <=> i > Len(rightBlocks)
            /\ \/ ~IsMissing(lp[i]) /\ ~IsMissing(rp[i])
               \/ /\ IsMissing(lp[i]) /\ ~IsMissing(rp[i])
                  /\ lp[i].highlight = "empty-space-added" /\ rp[i].highlight = "added"
               \/ /\ ~IsMissing(lp[i]) /\ IsMissing(rp[i])
                  /\ lp[i].highlight = "removed" /\ rp[i].highlight = "empty-space-removed"

C26_Witness ==
  /\ Returned("performMutualElementComparison")
  /\ Len(leftBlocks) = 1 /\ Len(rightBlocks) = 2
  /\ IsMissing(result.leftProcessed[2])
  /\ result.rightProcessed[1].highlight = "modified"

(***************************************************************************)
(* Claims on the stages' counts.                                           *)
(***************************************************************************)
LineClasses == {"git-line-added", "git-line-removed", "git-line-modified"}

\* the text block was classified by the block stage
BlockMarked(node) == IsTextBlock(node) /\ node.classList \cap LineClasses # {}

\* the number of nodes of a view that satisfy Test
CountNodes(view, Test(_)) == Cardinality({i \in 1..Len(view) : Test(view[i])})

\* the number of pieces of class cls in the text blocks of a view
CountPieces(view, cls) ==
  SumTo([i \in 1..Len(view) |->
           IF IsTextBlock(view[i])
           THEN Cardinality({k \in 1..Len(view[i].inner) : view[i].inner[k].cls = cls})
           ELSE 0], Len(view))

C28_CurrentChangeValid ==
  entry = "UnifiedMiniMap" /\ Len(markers) # 0 =>
    0 <= currentChange /\ currentChange < Len(markers)

\* the markers were collected from the present content of the panes
MarkersFresh == entry = "UnifiedMiniMap" /\ pc = "refreshed"

\* the unified markers whose elements list holds element k
MarkersHolding(k) ==
  {i \in 1..Len(markers) : \E j \in 1..Len(markers[i].elements) : markers[i].elements[j] = k}

\* every matched element is in the list of exactly one marker, once
ElementsPartitioned ==
  \A k \in 1..Len(changeElements) :
    /\ Cardinality(MarkersHolding(k)) = 1
    /\ \A i \in MarkersHolding(k) :
         Cardinality({j \in 1..Len(markers[i].elements) : markers[i].elements[j] = k}) = 1

\* a marker has the highest priority of the elements in its list
HighestPriorityKept ==
  \A i \in 1..Len(markers) :
    /\ \A j \in 1..Len(markers[i].elements) :
         priorityOf(changeElements[markers[i].elements[j]].classList) <= markers[i].priority
    /\ \E j \in 1..Len(markers[i].elements) :
         priorityOf(changeElements[markers[i].elements[j]].classList) = markers[i].priority

\* two markers are more than the threshold apart
MarkersApart ==
  \A i, j \in 1..Len(markers) :
    i # j => Abs(markers[i].ratio - markers[j].ratio) > threshold

\* C30: collectUnifiedMarkers partitions the change elements: every element
\* that a change selector matches in either pane is in the elements list of
\* exactly one unified marker (none is dropped when a marker of higher
\* priority replaces one), a unified marker keeps the highest priority of
\* the markers merged into it, and two distinct unified markers have ratios
\* more than 0.01 apart.
C30_MarkersPartition ==
  MarkersFresh => ElementsPartitioned /\ HighestPriorityKept /\ MarkersApart

\* the cascade of the last user scroll is over
CascadeOver == entry = "DocumentPreview" /\ origin # "none" /\ scrollEvents = <<>>

\* C29: the scroll synchronisation of the two panes does not feed back: a
\* user scroll on one pane causes exactly one assignment of scrollTop on the
\* other pane, and the scroll event of that assignment does not make the
\* other pane's handler write back to the pane the user scrolled; so every
\* cascade ends.
C29_NoFeedback ==
  CascadeOver => writes[TargetOf(origin)] = 1 /\ writes[origin] = 0

\* every pending scroll event is handled and the queue runs empty
CascadesEnd == (scrollEvents # <<>>) ~> (scrollEvents = <<>>)

=============================================================================
